---- MODULE Spec2Model ----
(***************************************************************************)
(* Model of the appointment-booking chatbot of mediChat: the per-user      *)
(* MedicalChatbot of src/test.py (the module the Flask application         *)
(* src/medical_chatboat.py imports), its MedicalChatMemory, its            *)
(* MedicalDatabase cache and the spreadsheet the caches are loaded from    *)
(* and written to.                                                         *)
(*                                                                         *)
(* A message is a sequence of tokens (words); the text predicates of the   *)
(* code (substring tests, regular expressions, strip/upper) are computed   *)
(* on the tokens.  A phone number is a sequence of characters.  A missing  *)
(* dictionary key / Python None is the string "None" for scalar fields and *)
(* the empty sequence for list-, dict- and text-valued fields.             *)
(***************************************************************************)
EXTENDS Integers, Sequences, FiniteSets, TLC

\* ------------------------------------------------------------------ bounds
\* datetime.now() is read as a counter of seconds; it stops at MaxClock
MaxClock == 1
\* rows the appointments worksheet may hold
MaxRows == 2

\* ------------------------------------------------------- static reference
None == "None"

Users == {"u1", "u2"}

\* the doctors worksheet, in row order (MedicalDatabase.__init__ sample rows)
DoctorIds == <<"dr_batra", "dr_shah", "dr_momin">>

DoctorsData ==
  [dr_batra |-> [name |-> <<"dr.", "batra">>, specialty |-> "general practice"],
   dr_shah  |-> [name |-> <<"dr.", "shah">>,  specialty |-> "cardiology"],
   dr_momin |-> [name |-> <<"dr.", "momin">>, specialty |-> "pediatrics"]]

\* _get_available_slots: the slot catalog
morning_slots == <<"10:45-11:00 AM", "11:00-11:15 AM", "11:15-11:30 AM">>

evening_slots == <<"1:45-2:00 PM", "2:00-2:15 PM", "2:15-2:30 PM">>

\* _get_available_dates: days_to_check and the cap on collected dates
days_to_check == 7

MaxDates == 3

\* (current_date + timedelta(days=i)).strftime("%Y-%m-%d") for i = 1..7,
\* current_date being 2026-11-05
DateStr ==
  <<"2026-11-06", "2026-11-07", "2026-11-08", "2026-11-09",
    "2026-11-10", "2026-11-11", "2026-11-12">>

\* f"APPT-{datetime.now().strftime('%Y%m%d%H%M%S')}" at clock value c
ApptId(c) == <<"APPT-20261105120000", "APPT-20261105120001",
               "APPT-20261105120002", "APPT-20261105120003">>[c + 1]

\* ids that confirmations of earlier days produced
EarlierIds == <<"APPT-20261103090000", "APPT-20261103090100", "APPT-20261104150000">>

\* f"temp_{datetime.now().strftime('%Y%m%d%H%M%S')}" at clock value c
TempId(c) == <<"temp_20261105120000", "temp_20261105120001",
               "temp_20261105120002", "temp_20261105120003">>[c + 1]

\* f"patient_{datetime.now().strftime('%Y%m%d%H%M%S')}" at clock value c
PermId(c) == <<"patient_20261105120000", "patient_20261105120001",
               "patient_20261105120002", "patient_20261105120003">>[c + 1]

\* ------------------------------------------------------ sequence helpers
Range(s) == {s[i] : i \in DOMAIN s}

Min(a, b) == IF a < b THEN a ELSE b

\* x in text, for a word x: some token of the text is x
Has(m, w) == \E i \in DOMAIN m : m[i] = w

\* phrase in text, for a phrase of several words
HasPhrase(m, p) ==
  \E i \in 1..(Len(m) - Len(p) + 1) : SubSeq(m, i, i + Len(p) - 1) = p

\* chr(65 + i), and the inverse lookup done by text.strip().upper()
Letters == <<"a", "b", "c", "d", "e", "f">>

\* index of the option whose letter is the whole message, 0 when none
LetterIndex(m, n) ==
  IF Len(m) = 1 /\ \E i \in 1..Min(n, Len(Letters)) : Letters[i] = m[1]
  THEN CHOOSE i \in 1..Min(n, Len(Letters)) : Letters[i] = m[1]
  ELSE 0

\* the first of the indices I, 0 when there is none (for ... break loops)
FirstIndex(I) ==
  IF I = {} THEN 0 ELSE CHOOSE i \in I : \A j \in I : i <= j

\* --------------------------------------------------------------- variables
VARIABLES
  bots,                \* user_sessions: user id -> that user's MedicalChatbot
  appointments_sheet,  \* rows of the "appointments" worksheet, in row order
  patients_sheet,      \* rows of the "patients" worksheet, keyed by the id column
  clock,               \* datetime.now(), in seconds
  scenario,            \* who sends messages and what they type: "pair", "solo",
                       \* "desk", ...; for the pathology bot, the test type asked for
  last,                \* the last process_message call: its sender, its inputs,
                       \* the step it found and its reply
  catalog,             \* the rows of the "doctors" worksheet and, where the
                       \* option resolution is studied on its own, the options
                       \* offered, the message typed and the option selected
  pathology            \* the pathology test bot: ConversationState.states,
                       \* Database.tests and the rows of the "tests" worksheet

vars == <<bots, appointments_sheet, patients_sheet, clock, scenario, last,
          catalog, pathology>>

\* MedicalChatMemory.booking_state == {}
EmptyState ==
  [step |-> None, in_progress |-> FALSE,
   specialty_options |-> <<>>, selected_specialty |-> None,
   doctor_options |-> <<>>, doctor_id |-> None,
   available_dates |-> <<>>, date |-> None,
   time_preference_options |-> <<>>, time_preference |-> None,
   available_slots |-> <<>>, time |-> None,
   name |-> <<>>, phone |-> <<>>, age |-> None, gender |-> None,
   original_appointment_id |-> None]

\* A MedicalChatbot that get_or_create_user_bot has not built yet
NoBot ==
  [created |-> FALSE,
   booking_state |-> EmptyState, is_booking_active |-> FALSE,
   current_patient_id |-> None,
   appointments |-> <<>>, patients |-> <<>>]

\* ------------------------------------------------------------- dictionaries
\* A Python dict is a sequence of [id, data] items in insertion order.
Keys(d) == {d[i].id : i \in DOMAIN d}

Get(d, k) == d[CHOOSE i \in DOMAIN d : d[i].id = k].data

\* d[k] = v: overwrite in place or append
Put(d, k, v) ==
  IF k \in Keys(d)
  THEN [i \in DOMAIN d |-> IF d[i].id = k THEN [id |-> k, data |-> v] ELSE d[i]]
  ELSE Append(d, [id |-> k, data |-> v])

\* MedicalDatabase._load_db: the records of a worksheet as a dict, a later
\* row replacing an earlier row that has the same id
LoadRows(rows) ==
  LET first == {i \in DOMAIN rows : \A j \in 1..(i - 1) : rows[j].id # rows[i].id}
      Nth(k) == CHOOSE i \in first : Cardinality({j \in first : j <= i}) = k
      Latest(id) == CHOOSE i \in DOMAIN rows :
                      /\ rows[i].id = id
                      /\ \A j \in (i + 1)..Len(rows) : rows[j].id # id
  IN [k \in 1..Cardinality(first) |->
        [id |-> rows[Nth(k)].id, data |-> rows[Latest(rows[Nth(k)].id)].data]]

_load_db(asheet, psheet) ==
  [appointments |-> LoadRows(asheet), patients |-> LoadRows(psheet)]

\* worksheet update of the first row whose id column is k (col_values(1).index)
UpdateRow(rows, k, cells) ==
  LET r == FirstIndex({i \in DOMAIN rows : rows[i].id = k})
  IN IF r = 0 THEN rows
     ELSE [rows EXCEPT ![r] = [id |-> k, data |-> cells @@ rows[r].data]]

\* ------------------------------------------------------ MedicalChatMemory
start_booking_flow(bot) ==
  [bot EXCEPT !.booking_state =
                 [EmptyState EXCEPT !.in_progress = TRUE, !.step = "select_doctor"],
              !.is_booking_active = TRUE]

\* clear_booking_state as it would be if it only ended the flow
EndFlowKeepingState(bot) == [bot EXCEPT !.is_booking_active = FALSE]

clear_booking_state(bot) ==
  [bot EXCEPT !.booking_state = EmptyState, !.is_booking_active = FALSE]

set_current_patient(bot, patient_id) ==
  [bot EXCEPT !.current_patient_id = patient_id]

clear_memory(bot) ==
  [bot EXCEPT !.booking_state = EmptyState, !.is_booking_active = FALSE,
              !.current_patient_id = None]

\* ------------------------------------------------- availability calculator
\* the time of every non-cancelled appointment of the doctor on the date
booked_times(appts, doctor_id, date) ==
  {appts[i].data.time : i \in {j \in DOMAIN appts :
      /\ appts[j].data.doctor_id = doctor_id
      /\ appts[j].data.date = date
      /\ appts[j].data.status # "cancelled"}}

all_slots(time_preference) ==
  IF time_preference = "morning" THEN morning_slots
  ELSE IF time_preference = "evening" THEN evening_slots
  ELSE morning_slots \o evening_slots

\* the calculator as it would be with the status of an appointment ignored
SlotsCountingCancelled(appts, doctor_id, date, time_preference) ==
  LET taken == {appts[j].data.time :
                  j \in {j \in DOMAIN appts : /\ appts[j].data.doctor_id = doctor_id
                                              /\ appts[j].data.date = date}}
      Free(slot) == slot \notin taken
  IN SelectSeq(all_slots(time_preference), Free)

_get_available_slots(appts, doctor_id, date, time_preference) ==
  LET booked == booked_times(appts, doctor_id, date)
      Free(slot) == slot \notin booked
  IN SelectSeq(all_slots(time_preference), Free)

RECURSIVE ScanDates(_, _, _, _)
ScanDates(appts, doctor_id, i, found) ==
  IF i > days_to_check THEN found
  ELSE IF _get_available_slots(appts, doctor_id, DateStr[i], None) # <<>>
       THEN IF Len(found) + 1 >= MaxDates THEN Append(found, DateStr[i])
            ELSE ScanDates(appts, doctor_id, i + 1, Append(found, DateStr[i]))
       ELSE ScanDates(appts, doctor_id, i + 1, found)

\* the scan as it would be with no look at the slots of a date
DatesUnchecked(appts, doctor_id) == SubSeq(DateStr, 1, MaxDates)

_get_available_dates(appts, doctor_id) == ScanDates(appts, doctor_id, 1, <<>>)

\* ------------------------------------------------------------ text tests
\* the words a token contains as substrings, beyond the token itself
Within(t) ==
  CASE t = "reschedule" -> {"reschedule", "schedule"}
    [] t = "booking"    -> {"booking", "book"}
    [] t = "pediatric cardiology" -> {"pediatric cardiology", "cardiology"}
    [] OTHER            -> {t}

\* w in text.lower(), for a single word w
Contains(m, w) == \E i \in DOMAIN m : w \in Within(m[i])

\* the number of '-' characters of a token
Hyphens(t) ==
  IF t \in Range(DateStr) THEN 2
  ELSE IF t \in Range(morning_slots \o evening_slots) THEN 1
  ELSE IF t \in {ApptId(c) : c \in 0..3} THEN 1
  ELSE 0

RECURSIVE HyphenCount(_)
HyphenCount(m) ==
  IF m = <<>> THEN 0 ELSE Hyphens(Head(m)) + HyphenCount(Tail(m))

\* input_text.lower() == "start" or any(keyword in input_text.lower() ...)
IsStartInput(m) ==
  \/ m = <<"start">>
  \/ Contains(m, "book")
  \/ Contains(m, "appointment")
  \/ Contains(m, "schedule")
  \/ HasPhrase(m, <<"see", "a", "doctor">>)

\* ------------------------------------------------------- MedicalDatabase
NewPatient == [name |-> <<>>, phone |-> <<>>, age |-> None, gender |-> None]

\* the record with the fields of data replaced
Merge(rec, data) == data @@ rec

\* save_partial_patient_data: merge into the cached patient and into the
\* worksheet row of that id, creating either when absent
save_partial_patient_data(w, patient_id, data) ==
  LET old == IF patient_id \in Keys(w.bot.patients)
             THEN Get(w.bot.patients, patient_id) ELSE NewPatient
      row == IF patient_id \in Keys(w.psheet)
             THEN Get(w.psheet, patient_id) ELSE NewPatient
  IN [w EXCEPT !.bot.patients = Put(w.bot.patients, patient_id, Merge(old, data)),
               !.psheet = Put(w.psheet, patient_id, Merge(row, data))]

\* add_patient: replace the cached patient; update or append the row
add_patient(w, patient_id, patient_data) ==
  LET row == IF patient_id \in Keys(w.psheet)
             THEN Get(w.psheet, patient_id) ELSE NewPatient
  IN [w EXCEPT !.bot.patients =
                  Put(w.bot.patients, patient_id, Merge(NewPatient, patient_data)),
               !.psheet = Put(w.psheet, patient_id, Merge(row, patient_data))]

\* find_patient_id: the first cached patient with this name and phone, or ""
find_patient_id(patients, name, phone) ==
  LET Match(p) == p.data.name = name /\ p.data.phone = phone
      i == FirstIndex({j \in DOMAIN patients : Match(patients[j])})
  IN IF i = 0 THEN None ELSE patients[i].id

\* book_appointment as it would be if a failed worksheet write were repeated
\* until the row is stored
BookAppointmentRetrying(appts, asheet, appointment_id, appointment_data, sheet_ok) ==
  IF appointment_id \in Keys(appts)
  THEN [ok |-> FALSE, appointments |-> appts, asheet |-> asheet]
  ELSE [ok |-> TRUE,
        appointments |-> Put(appts, appointment_id, appointment_data),
        asheet |-> Append(asheet, [id |-> appointment_id, data |-> appointment_data])]

\* book_appointment: [ok, appointments, asheet].  The id must be new to the
\* cache; the cache is written first, then the row is appended, and an
\* exception of the worksheet call (sheet_ok = FALSE) is caught and answered
\* with False.
book_appointment(appts, asheet, appointment_id, appointment_data, sheet_ok) ==
  IF appointment_id = None \/ appointment_id \in Keys(appts)
  THEN [ok |-> FALSE, appointments |-> appts, asheet |-> asheet]
  ELSE IF ~sheet_ok
  THEN [ok |-> FALSE,
        appointments |-> Put(appts, appointment_id, appointment_data),
        asheet |-> asheet]
  ELSE [ok |-> TRUE,
        appointments |-> Put(appts, appointment_id, appointment_data),
        asheet |-> Append(asheet, [id |-> appointment_id, data |-> appointment_data])]

\* ------------------------------------------------------- _handle_booking
\* A handler maps a world w = [bot, asheet, psheet, reply] (the user's
\* chatbot and the two worksheets) to the world it leaves, reply included.
Reply(w, r) == [w EXCEPT !.reply = r]

\* An exception leaves process_message: `phone[2:]` on None raises TypeError
\* inside the try (line 1487), int() of a digit character it does not parse
\* raises ValueError (line 869), and the handler (1631-1639) itself raises
\* NameError at `traceback.print_exc()`, the module not being imported,
\* before it clears anything or returns.
Raised(w) == Reply(w, "raised")

update_booking_state(w, data) ==
  [w EXCEPT !.bot.booking_state = Merge(w.bot.booking_state, data)]

\* sorted(set(doc_info["specialty"] ...)): the specialties in lexicographic
\* order, lettered by position
LexOrder == <<"cardiology", "general practice", "pediatric cardiology",
              "pediatrics">>

LexRank(a) == CHOOSE i \in DOMAIN LexOrder : LexOrder[i] = a

RECURSIVE SortStrings(_)
SortStrings(S) ==
  IF S = {} THEN <<>>
  ELSE LET first == CHOOSE a \in S : \A b \in S : LexRank(a) <= LexRank(b)
       IN <<first>> \o SortStrings(S \ {first})

SpecialtyOptions ==
  SortStrings({DoctorsData[DoctorIds[i]].specialty : i \in DOMAIN DoctorIds})

\* the start of a flow: lines 514-536, and 539-559 for a call without one
StartFlow(w, cleared) ==
  LET w1 == [w EXCEPT !.bot =
                start_booking_flow(IF cleared THEN clear_booking_state(w.bot)
                                   ELSE w.bot)]
      w2 == update_booking_state(w1,
                [specialty_options |-> SpecialtyOptions, step |-> "select_specialty"])
  IN Reply(w2, "specialty_prompt")

\* lines 616-630: the position of the specialty a message selects among the
\* options, 0 when none: by its letter, else the first option, in letter
\* order, whose name the message contains
ResolveSpecialty(specialty_options, m) ==
  LET byLetter == LetterIndex(m, Len(specialty_options))
      Named(sp) == Contains(m, sp)
      byName == FirstIndex({j \in DOMAIN specialty_options :
                             Named(specialty_options[j])})
  IN IF byLetter # 0 THEN byLetter ELSE byName

\* lines 672-686: the doctor a message selects, None when none: by the letter
\* of an option, else the first doctor of the whole table, in row order,
\* whose name the message contains
ResolveDoctor(doctor_options, ids, doctors, m) ==
  LET byLetter == LetterIndex(m, Len(doctor_options))
      Named(d) == HasPhrase(m, doctors[d].name)
      byName == FirstIndex({j \in DOMAIN ids : Named(ids[j])})
  IN IF byLetter # 0 THEN doctor_options[byLetter]
     ELSE IF byName # 0 THEN ids[byName] ELSE None

StepSelectSpecialty(w, m) ==
  LET bs == w.bot.booking_state
      opts == bs.specialty_options
      k == ResolveSpecialty(opts, m)
      InSpecialty(d) == DoctorsData[d].specialty = opts[k]
      filtered == SelectSeq(DoctorIds, InSpecialty)
  IN IF k = 0 THEN Reply(w, "specialty_retry")
     ELSE IF filtered = <<>> THEN Reply(w, "no_doctors_in_specialty")
     ELSE Reply(update_booking_state(w,
                  [selected_specialty |-> opts[k], doctor_options |-> filtered,
                   step |-> "select_doctor"]),
                "doctor_prompt")

StepSelectDoctor(w, m) ==
  LET bs == w.bot.booking_state
      opts == bs.doctor_options
      selected == ResolveDoctor(opts, DoctorIds, DoctorsData, m)
      available_dates == _get_available_dates(w.bot.appointments, selected)
  IN IF selected = None THEN Reply(w, "doctor_retry")
     ELSE IF available_dates = <<>> THEN Reply(w, "doctor_has_no_dates")
     ELSE Reply(update_booking_state(w,
                  [doctor_id |-> selected, available_dates |-> available_dates,
                   step |-> "select_date"]),
                "date_prompt")

\* select_date as it would be with the date recorded before it is checked
\* against the dates on offer
StepSelectDateStoringFirst(w, m) ==
  LET bs == w.bot.booking_state
      stored == update_booking_state(w, [date |-> m[1]])
      listed == Len(m) = 1 /\ m[1] \in Range(bs.available_dates)
      morning == _get_available_slots(w.bot.appointments, bs.doctor_id, m[1], "morning")
      evening == _get_available_slots(w.bot.appointments, bs.doctor_id, m[1], "evening")
      options == (IF morning # <<>> THEN <<"morning">> ELSE <<>>)
                 \o (IF evening # <<>> THEN <<"evening">> ELSE <<>>)
  IN IF HyphenCount(m) # 2 THEN Reply(w, "date_format_retry")
     ELSE IF ~listed THEN Reply(stored, "date_unavailable_retry")
     ELSE IF options = <<>> THEN Reply(stored, "no_slots_on_date")
     ELSE Reply(update_booking_state(w,
                  [date |-> m[1], time_preference_options |-> options,
                   step |-> "select_time_preference"]),
                IF Len(options) = 1 THEN "single_preference_prompt"
                ELSE "preference_prompt")

\* select_date as it would be with an unlisted date replaced by the first
\* date on offer
StepSelectDateSubstituting(w, m) ==
  LET bs == w.bot.booking_state
      date == IF Len(m) = 1 /\ m[1] \in Range(bs.available_dates)
              THEN m[1] ELSE bs.available_dates[1]
      morning == _get_available_slots(w.bot.appointments, bs.doctor_id, date, "morning")
      evening == _get_available_slots(w.bot.appointments, bs.doctor_id, date, "evening")
      options == (IF morning # <<>> THEN <<"morning">> ELSE <<>>)
                 \o (IF evening # <<>> THEN <<"evening">> ELSE <<>>)
  IN IF HyphenCount(m) # 2 THEN Reply(w, "date_format_retry")
     ELSE IF options = <<>> THEN Reply(w, "no_slots_on_date")
     ELSE Reply(update_booking_state(w,
                  [date |-> date, time_preference_options |-> options,
                   step |-> "select_time_preference"]),
                IF Len(options) = 1 THEN "single_preference_prompt"
                ELSE "preference_prompt")

StepSelectDate(w, m) ==
  LET bs == w.bot.booking_state
      listed == Len(m) = 1 /\ m[1] \in Range(bs.available_dates)
      morning == _get_available_slots(w.bot.appointments, bs.doctor_id, m[1], "morning")
      evening == _get_available_slots(w.bot.appointments, bs.doctor_id, m[1], "evening")
      options == (IF morning # <<>> THEN <<"morning">> ELSE <<>>)
                 \o (IF evening # <<>> THEN <<"evening">> ELSE <<>>)
  IN IF HyphenCount(m) # 2 THEN Reply(w, "date_format_retry")
     ELSE IF ~listed THEN Reply(w, "date_unavailable_retry")
     ELSE IF options = <<>> THEN Reply(w, "no_slots_on_date")
     ELSE Reply(update_booking_state(w,
                  [date |-> m[1], time_preference_options |-> options,
                   step |-> "select_time_preference"]),
                IF Len(options) = 1 THEN "single_preference_prompt"
                ELSE "preference_prompt")

StepSelectTimePreference(w, m) ==
  LET bs == w.bot.booking_state
      options == bs.time_preference_options
      preference == IF Len(options) = 1 /\ Contains(m, "yes")
                    THEN <<options[1]>> ELSE m
      chosen == IF Contains(preference, "morning") /\ "morning" \in Range(options)
                THEN "morning"
                ELSE IF Contains(preference, "evening") /\ "evening" \in Range(options)
                THEN "evening" ELSE None
  IN IF chosen = None
     THEN Reply(w, IF Len(options) = 1 THEN "single_preference_retry"
                   ELSE "preference_retry")
     ELSE Reply(update_booking_state(w,
                  [time_preference |-> chosen,
                   available_slots |->
                     _get_available_slots(w.bot.appointments, bs.doctor_id, bs.date, chosen),
                   step |-> "select_time"]),
                "time_prompt")

\* select_time as it would be with the input matched against the whole
\* catalog
StepSelectTimeFromCatalog(w, m) ==
  LET slots == morning_slots \o evening_slots
      Typed(slot) == Has(m, slot)
      k == FirstIndex({j \in DOMAIN slots : Typed(slots[j])})
  IN IF k = 0 THEN Reply(w, "time_retry")
     ELSE Reply(update_booking_state(w,
                  [time |-> slots[k], step |-> "collect_name"]),
                "name_prompt")

StepSelectTime(w, m) ==
  LET bs == w.bot.booking_state
      Typed(slot) == Has(m, slot)
      k == FirstIndex({j \in DOMAIN bs.available_slots : Typed(bs.available_slots[j])})
  IN IF k = 0 THEN Reply(w, "time_retry")
     ELSE Reply(update_booking_state(w,
                  [time |-> bs.available_slots[k], step |-> "collect_name"]),
                "name_prompt")

\* int(age) of a token for which str.isdigit() holds, -1 for any other token
AgeValue(t) ==
  CASE t = "0" -> 0 [] t = "25" -> 25 [] t = "119" -> 119
    [] t = "120" -> 120 [] t = "200" -> 200 [] OTHER -> -1

\* the token standing for the one-character text U+00B2 (superscript two):
\* str.isdigit() is True for it and int() raises ValueError
SuperscriptTwo == "sup2"

StepCollectName(w, m, phone, now) ==
  LET patient_id == IF w.bot.current_patient_id # None
                    THEN w.bot.current_patient_id ELSE TempId(now)
      w1 == update_booking_state(w, [name |-> m])
      w2 == [w1 EXCEPT !.bot = set_current_patient(w1.bot, patient_id)]
      w3 == save_partial_patient_data(w2, patient_id, [name |-> m])
  IN IF m = <<>> THEN Reply(w, "name_required")
     ELSE IF phone # <<>>
     THEN Reply(save_partial_patient_data(
                  update_booking_state(w3, [phone |-> phone, step |-> "collect_age"]),
                  patient_id, [phone |-> phone]),
                "age_prompt")
     ELSE Reply(update_booking_state(w3, [step |-> "collect_phone"]), "phone_prompt")

StepCollectPhone(w, m) ==
  IF m = <<>> THEN Reply(w, "phone_required")
  ELSE Reply(save_partial_patient_data(
               update_booking_state(w, [phone |-> m, step |-> "collect_age"]),
               w.bot.current_patient_id, [phone |-> m]),
             "age_prompt")

\* step collect_age: `not age.isdigit() or not (0 < int(age) < 120)`; for a
\* token that passes isdigit() and that int() does not parse, int() raises
\* ValueError out of _handle_booking into the handler of process_message
StepCollectAge(w, m) ==
  IF Len(m) = 1 /\ m[1] = SuperscriptTwo THEN Raised(w)
  ELSE IF ~(Len(m) = 1 /\ AgeValue(m[1]) > 0 /\ AgeValue(m[1]) < 120)
  THEN Reply(w, "age_retry")
  ELSE Reply(save_partial_patient_data(
               update_booking_state(w, [age |-> m[1], step |-> "collect_gender"]),
               w.bot.current_patient_id, [age |-> m[1]]),
             "gender_prompt")

StepCollectGender(w, m) ==
  IF ~(Len(m) = 1 /\ m[1] \in {"male", "female", "other"})
  THEN Reply(w, "gender_retry")
  ELSE Reply(save_partial_patient_data(
               update_booking_state(w, [gender |-> m[1], step |-> "confirm"]),
               w.bot.current_patient_id, [gender |-> m[1]]),
             "reason_prompt")

\* confirm as it would be without the two checks for missing fields
StepConfirmUnchecked(w, m, now, sheet_ok) ==
  LET bs == w.bot.booking_state
      appointment_data ==
        [doctor_id |-> bs.doctor_id, patient_id |-> w.bot.current_patient_id,
         date |-> bs.date, time |-> bs.time, reason |-> m,
         name |-> bs.name, phone |-> bs.phone, status |-> "confirmed",
         specialty |-> bs.selected_specialty, rescheduled |-> FALSE]
      booked == book_appointment(w.bot.appointments, w.asheet,
                                 ApptId(now), appointment_data, sheet_ok)
      w2 == [w EXCEPT !.bot.appointments = booked.appointments,
                      !.asheet = booked.asheet]
  IN Reply([w2 EXCEPT !.bot = clear_booking_state(w2.bot)],
           IF booked.ok THEN "appointment_booked" ELSE "system_error")

\* step confirm, lines 893-973: the reason is the whole message; the state is
\* cleared on every way out
StepConfirm(w, m, now, sheet_ok) ==
  LET bs == w.bot.booking_state
      name == bs.name
      phone == bs.phone
      found == find_patient_id(w.bot.patients, name, phone)
      w1 == IF w.bot.current_patient_id # None THEN w
            ELSE IF found # None THEN w
            ELSE [add_patient(w, PermId(now), [name |-> name, phone |-> phone])
                    EXCEPT !.bot.current_patient_id = PermId(now)]
      patient_id == IF w.bot.current_patient_id # None THEN w.bot.current_patient_id
                    ELSE IF found # None THEN found ELSE PermId(now)
      appointment_data ==
        [doctor_id |-> bs.doctor_id, patient_id |-> patient_id,
         date |-> bs.date, time |-> bs.time, reason |-> m,
         name |-> name, phone |-> phone, status |-> "confirmed",
         specialty |-> bs.selected_specialty, rescheduled |-> FALSE]
      booked == book_appointment(w1.bot.appointments, w1.asheet,
                                 ApptId(now), appointment_data, sheet_ok)
      w2 == [w1 EXCEPT !.bot.appointments = booked.appointments,
                       !.asheet = booked.asheet]
      Cleared(x) == [x EXCEPT !.bot = clear_booking_state(x.bot)]
  IN IF name = <<>> \/ phone = <<>>
     THEN Reply(Cleared(w), "missing_patient_information")
     ELSE IF bs.doctor_id = None \/ bs.date = None \/ bs.time = None
     THEN Reply(Cleared(w1), "missing_appointment_details")
     ELSE IF ~booked.ok THEN Reply(Cleared(w2), "system_error")
     ELSE Reply(Cleared(w2), "appointment_booked")

_handle_booking(w, m, phone, now, sheet_ok) ==
  LET step == w.bot.booking_state.step
  IN IF IsStartInput(m) THEN StartFlow(w, TRUE)
     ELSE IF ~w.bot.is_booking_active THEN StartFlow(w, FALSE)
     ELSE CASE step = "select_specialty" -> StepSelectSpecialty(w, m)
            [] step = "select_doctor" -> StepSelectDoctor(w, m)
            [] step = "select_date" -> StepSelectDate(w, m)
            [] step = "select_time_preference" -> StepSelectTimePreference(w, m)
            [] step = "select_time" -> StepSelectTime(w, m)
            [] step = "collect_name" -> StepCollectName(w, m, phone, now)
            [] step = "collect_phone" -> StepCollectPhone(w, m)
            [] step = "collect_age" -> StepCollectAge(w, m)
            [] step = "collect_gender" -> StepCollectGender(w, m)
            [] step = "confirm" -> StepConfirm(w, m, now, sheet_ok)
            [] OTHER -> Reply(w, None)

\* ------------------------------------------------------- times and dates
\* re.match(r'(\d{1,2}:\d{2})-\d{1,2}:\d{2}\s*(AM|PM|am|pm)?', t): a range
\* label, and f"{start} {am_pm}" built from its groups
IsRange(t) == t \in Range(morning_slots \o evening_slots)

RangeStart(t) ==
  CASE t = "10:45-11:00 AM" -> "10:45 AM"
    [] t = "11:00-11:15 AM" -> "11:00 AM"
    [] t = "11:15-11:30 AM" -> "11:15 AM"
    [] t = "1:45-2:00 PM"   -> "1:45 PM"
    [] t = "2:00-2:15 PM"   -> "2:00 PM"
    [] t = "2:15-2:30 PM"   -> "2:15 PM"

\* the end of a range label with its AM/PM: what
\* re.search(r'\d{1,2}:\d{2}\s*(AM|PM)', text) finds in a range label
RangeEnd(t) ==
  CASE t = "10:45-11:00 AM" -> "11:00 AM"
    [] t = "11:00-11:15 AM" -> "11:15 AM"
    [] t = "11:15-11:30 AM" -> "11:30 AM"
    [] t = "1:45-2:00 PM"   -> "2:00 PM"
    [] t = "2:00-2:15 PM"   -> "2:15 PM"
    [] t = "2:15-2:30 PM"   -> "2:30 PM"

\* a single time such as "11:00 AM", which strptime("%Y-%m-%d %I:%M %p") parses
IsPlainTime(t) ==
  t \in {RangeStart(x) : x \in Range(morning_slots \o evening_slots)}
        \cup {RangeEnd(x) : x \in Range(morning_slots \o evening_slots)}

\* the calendar around datetime.now(), in order
current_date == "2026-11-05"

Calendar == <<"2026-11-04", current_date>> \o DateStr

DayRank(d) == CHOOSE i \in DOMAIN Calendar : Calendar[i] = d

\* appt_datetime < datetime.now(), for a parsed appointment date
DateElapsed(d) == d \in Range(Calendar) /\ DayRank(d) < DayRank(current_date)

\* re.search(r'APPT-\d{14}', message): the first appointment id of the text
ExtractApptId(m) ==
  LET IsId(t) == \/ t \in {ApptId(c) : c \in 0..3} \cup Range(EarlierIds)
                 \/ \E k \in DOMAIN morning_slots :
                      t = "APPT-2026110409" \o ToString(1000 + k)
      i == FirstIndex({j \in DOMAIN m : IsId(m[j])})
  IN IF i = 0 THEN None ELSE m[i]

\* re.search(r'\d{4}-\d{2}-\d{2}', message): the first date of the text
ExtractDate(m) ==
  LET IsDate(t) == t \in Range(Calendar)
      i == FirstIndex({j \in DOMAIN m : IsDate(m[j])})
  IN IF i = 0 THEN None ELSE m[i]

\* re.search(r'\d{1,2}:\d{2}\s*(AM|PM)', message): the first time of the text
ExtractTime(m) ==
  LET IsTime(t) == IsPlainTime(t) \/ IsRange(t)
      i == FirstIndex({j \in DOMAIN m : IsTime(m[j])})
  IN IF i = 0 THEN None
     ELSE IF IsRange(m[i]) THEN RangeEnd(m[i]) ELSE m[i]

\* ---------------------------------------------------- _cancel_appointment
\* the past check of _cancel_appointment: none of its four formats parses a
\* range label, and an unparsed time is not compared
CancelSeesPast(appt) == IsPlainTime(appt.time) /\ DateElapsed(appt.date)

_cancel_appointment(w, appointment_id, sheet_ok) ==
  LET appt == Get(w.bot.appointments, appointment_id)
      cancelled == [status |-> "cancelled"]
  IN IF appointment_id \notin Keys(w.bot.appointments)
     THEN Reply(w, "no_appointment_found")
     ELSE IF appt.status = "cancelled" THEN Reply(w, "already_cancelled")
     ELSE IF CancelSeesPast(appt) THEN Reply(w, "cannot_cancel_past")
     ELSE Reply([w EXCEPT
                   !.bot.appointments = Put(w.bot.appointments, appointment_id, cancelled @@ appt),
                   !.asheet = IF sheet_ok THEN UpdateRow(w.asheet, appointment_id, cancelled)
                              ELSE w.asheet],
                "appointment_cancelled")

\* ------------------------------------------------ _reschedule_appointment
RescheduleSeesPast(appt) ==
  (IsRange(appt.time) \/ IsPlainTime(appt.time)) /\ DateElapsed(appt.date)

\* the slot list with every range label replaced by its start time
Normalized(slots) ==
  [i \in DOMAIN slots |-> IF IsRange(slots[i]) THEN RangeStart(slots[i]) ELSE slots[i]]

_reschedule_appointment(w, appointment_id, new_date, new_time, sheet_ok) ==
  LET appt == Get(w.bot.appointments, appointment_id)
      doctor_id == appt.doctor_id
      available_dates == _get_available_dates(w.bot.appointments, doctor_id)
      morning == _get_available_slots(w.bot.appointments, doctor_id, new_date, "morning")
      evening == _get_available_slots(w.bot.appointments, doctor_id, new_date, "evening")
      options == (IF morning # <<>> THEN <<"morning">> ELSE <<>>)
                 \o (IF evening # <<>> THEN <<"evening">> ELSE <<>>)
      time_to_check == IF IsRange(new_time) THEN RangeStart(new_time) ELSE new_time
      available_slots == _get_available_slots(w.bot.appointments, doctor_id, new_date, None)
      moved == [date |-> new_date, time |-> new_time, rescheduled |-> TRUE]
  IN IF appointment_id \notin Keys(w.bot.appointments)
     THEN Reply(w, "no_appointment_found")
     ELSE IF appt.status = "cancelled" THEN Reply(w, "cannot_reschedule_cancelled")
     ELSE IF RescheduleSeesPast(appt) THEN Reply(w, "cannot_reschedule_past")
     ELSE IF doctor_id \notin Range(DoctorIds) THEN Reply(w, "doctor_not_found")
     ELSE IF new_date = None /\ new_time = None
     THEN IF available_dates = <<>> THEN Reply(w, "no_dates_to_reschedule")
          ELSE Reply(update_booking_state(
                       [w EXCEPT !.bot = start_booking_flow(w.bot)],
                       [step |-> "reschedule_date", doctor_id |-> doctor_id,
                        original_appointment_id |-> appointment_id,
                        available_dates |-> available_dates]),
                     "reschedule_date_prompt")
     ELSE IF new_date # None /\ new_time = None
     THEN IF options = <<>> THEN Reply(w, "no_slots_to_reschedule")
          ELSE Reply(update_booking_state(w,
                       [step |-> "reschedule_time_preference", doctor_id |-> doctor_id,
                        original_appointment_id |-> appointment_id,
                        date |-> new_date, time_preference_options |-> options]),
                     IF Len(options) = 1 THEN "reschedule_single_preference_prompt"
                     ELSE "reschedule_preference_prompt")
     ELSE IF new_date # None /\ new_time # None
     THEN IF /\ time_to_check \notin Range(available_slots)
             /\ time_to_check \notin Range(Normalized(available_slots))
          THEN Reply(w, "slot_not_available")
          ELSE Reply([w EXCEPT
                        !.bot = clear_booking_state(
                                  [w.bot EXCEPT !.appointments =
                                     Put(w.bot.appointments, appointment_id, moved @@ appt)]),
                        !.asheet = IF sheet_ok THEN UpdateRow(w.asheet, appointment_id, moved)
                                   ELSE w.asheet],
                     "appointment_rescheduled")
     ELSE Reply(w, "reschedule_error")

\* -------------------------------------------------------- process_message
IsReset(m) ==
  m \in {<<"reset">>, <<"clear", "memory">>, <<"restart">>, <<"clear", "cache">>}

IsCancelBooking(m) == m \in {<<"cancel", "booking">>, <<"stop", "booking">>}

\* is_greeting: the text starts with one of the greeting words
is_greeting(m) ==
  /\ m # <<>>
  /\ \/ m[1] \in {"hi", "hello", "hey", "greetings", "howdy", "namaste"}
     \/ m[1] \in {"hiren", "high"}   \* words that start with "hi"
     \/ (Len(m) >= 2 /\ m[1] = "good" /\ m[2] \in {"morning", "afternoon", "evening"})

is_cancel_request(m) == Contains(m, "cancel") /\ Contains(m, "appointment")

is_reschedule_request(m) ==
  \/ HasPhrase(m, <<"reschedule", "appointment">>)
  \/ HasPhrase(m, <<"change", "appointment">>)
  \/ HasPhrase(m, <<"move", "appointment">>)
  \/ HasPhrase(m, <<"reschedule", "my", "appointment">>)
  \/ HasPhrase(m, <<"change", "my", "appointment">>)

is_booking_request(m) == Contains(m, "book") /\ Contains(m, "appointment")

\* lines 1485-1487: a leading "+" is dropped, then the first two characters
FormatPhone(phone) ==
  LET q == IF phone # <<>> /\ phone[1] = "+" THEN Tail(phone) ELSE phone
  IN SubSeq(q, 3, Len(q))

\* the reschedule_date step as it would be if the chosen date were written
\* to the appointment at once
StepRescheduleDateMoving(w, m, sheet_ok) ==
  LET bs == w.bot.booking_state
      id == bs.original_appointment_id
      w1 == _reschedule_appointment(w, id, m[1], None, sheet_ok)
  IN IF Len(m) = 1 /\ m[1] \in Range(bs.available_dates)
     THEN [w1 EXCEPT !.bot.appointments =
             Put(w1.bot.appointments, id,
                 [date |-> m[1]] @@ Get(w1.bot.appointments, id))]
     ELSE Reply(w, "date_unavailable_retry")

\* lines 1510-1587: the steps of a reschedule flow
StepRescheduleDate(w, m, sheet_ok) ==
  LET bs == w.bot.booking_state
  IN IF Len(m) = 1 /\ m[1] \in Range(bs.available_dates)
     THEN _reschedule_appointment(w, bs.original_appointment_id, m[1], None, sheet_ok)
     ELSE Reply(w, "date_unavailable_retry")

StepRescheduleTimePreference(w, m) ==
  LET bs == w.bot.booking_state
      options == bs.time_preference_options
      chosen == IF Contains(m, "morning") /\ "morning" \in Range(options)
                THEN "morning"
                ELSE IF Contains(m, "evening") /\ "evening" \in Range(options)
                THEN "evening" ELSE None
  IN IF chosen = None
     THEN Reply(w, IF Len(options) = 1 THEN "single_preference_retry"
                   ELSE "preference_retry")
     ELSE Reply(update_booking_state(w,
                  [step |-> "reschedule_time", time_preference |-> chosen,
                   available_slots |->
                     _get_available_slots(w.bot.appointments, bs.doctor_id, bs.date, chosen)]),
                "reschedule_time_prompt")

StepRescheduleTime(w, m, sheet_ok) ==
  LET bs == w.bot.booking_state
      Typed(slot) == Has(m, slot)
      k == FirstIndex({j \in DOMAIN bs.available_slots : Typed(bs.available_slots[j])})
  IN IF k = 0 THEN Reply(w, "time_retry")
     ELSE _reschedule_appointment(w, bs.original_appointment_id, bs.date,
                                  bs.available_slots[k], sheet_ok)

\* process_message(message) without its optional phone argument: phone is None
NoPhone == <<None>>

process_message(w, m, channel_phone, now, sheet_ok) ==
  LET appointment_id == ExtractApptId(m)
      phone == FormatPhone(channel_phone)
      step == w.bot.booking_state.step
  IN IF IsReset(m) THEN Reply([w EXCEPT !.bot = clear_memory(w.bot)], "memory_cleared")
     ELSE IF IsCancelBooking(m)
     THEN Reply([w EXCEPT !.bot = clear_booking_state(w.bot)], "booking_canceled")
     ELSE IF is_greeting(m) THEN Reply(w, "greeting")
     ELSE IF channel_phone = NoPhone THEN Raised(w)
     ELSE IF is_cancel_request(m) /\ appointment_id # None
     THEN _cancel_appointment(w, appointment_id, sheet_ok)
     ELSE IF is_reschedule_request(m) /\ appointment_id # None
     THEN _reschedule_appointment(w, appointment_id, ExtractDate(m), ExtractTime(m), sheet_ok)
     ELSE IF w.bot.is_booking_active
     THEN CASE step = "reschedule_date" -> StepRescheduleDate(w, m, sheet_ok)
            [] step = "reschedule_time_preference" -> StepRescheduleTimePreference(w, m)
            [] step = "reschedule_time" -> StepRescheduleTime(w, m, sheet_ok)
            [] OTHER -> _handle_booking(w, m, phone, now, sheet_ok)
     ELSE IF is_booking_request(m) THEN _handle_booking(w, <<"start">>, phone, now, sheet_ok)
     ELSE Reply(w, "other")

\* ------------------------------------------------------------ the inputs
\* the sender phone a channel passes: a number with its country prefix, or
\* the empty string
ChannelPhone(u) ==
  IF u = "u1" THEN <<"+", "9", "1", "7", "0", "1">> ELSE <<>>

\* what a user may type at a step, when one user explores the flow alone
SoloStepInputs(step) ==
  CASE step = "select_specialty" -> {<<"a">>, <<"pediatrics">>, <<"zzz">>}
    [] step = "select_doctor" -> {<<"a">>, <<"zzz">>}
    [] step \in {"select_date", "reschedule_date"} ->
         {<<DateStr[1]>>, <<DateStr[7]>>, <<"zzz">>}
    [] step \in {"select_time_preference", "reschedule_time_preference"} ->
         {<<"morning">>, <<"evening">>, <<"zzz">>}
    [] step \in {"select_time", "reschedule_time"} ->
         {<<"10:45-11:00 AM">>, <<"1:45-2:00 PM">>, <<"zzz">>}
    [] step = "collect_name" -> {<<"asha", "rao">>, <<"hiren", "shah">>, <<>>}
    [] step = "collect_phone" -> {<<"9725193559">>, <<>>}
    [] step = "collect_age" -> {<<"25">>, <<"200">>}
    [] step = "collect_gender" -> {<<"male">>, <<"zzz">>}
    [] step = "confirm" ->
         {<<"fever">>, <<"schedule", "a", "checkup">>, <<"high", "fever">>}
    [] OTHER -> {<<"zzz">>}

\* what a user may type at a step, when two users book side by side
PairStepInputs(step) ==
  CASE step = "select_specialty" -> {<<"a">>}
    [] step = "select_doctor" -> {<<"a">>}
    [] step = "select_date" -> {<<DateStr[1]>>}
    [] step = "select_time_preference" -> {<<"morning">>}
    [] step = "select_time" -> {<<"10:45-11:00 AM">>, <<"11:00-11:15 AM">>}
    [] step = "collect_name" -> {<<"asha", "rao">>}
    [] step = "collect_phone" -> {<<"9725193559">>}
    [] step = "collect_age" -> {<<"25">>}
    [] step = "collect_gender" -> {<<"male">>}
    [] step = "confirm" -> {<<"fever">>}
    [] OTHER -> {}

\* two users side by side start a booking when none is under way
PairControlInputs(bot) ==
  IF bot.is_booking_active THEN {} ELSE {<<"book", "appointment">>}

\* a user managing appointments also cancels and moves the ones on record
DeskControlInputs(bot) ==
  PairControlInputs(bot)
  \cup {<<"cancel", "appointment", id>> : id \in Keys(bot.appointments)}
  \cup {<<"reschedule", "appointment", id, DateStr[1], "11:00 AM">> :
          id \in Keys(bot.appointments)}

\* a user with appointments of earlier days on record: cancels them, and
\* asks to move them with no date, with a date, or with a date and a time
LedgerControlInputs(bot) ==
  UNION {{<<"cancel", "appointment", id>>,
          <<"reschedule", "appointment", id>>,
          <<"reschedule", "appointment", id, DateStr[2]>>,
          <<"reschedule", "appointment", id, DateStr[1], "11:00 AM">>} :
         id \in Keys(bot.appointments)}

\* what that user may type at a step of the reschedule flow
LedgerStepInputs(step) ==
  CASE step = "reschedule_date" -> {<<DateStr[2]>>, <<"zzz">>}
    [] step = "reschedule_time_preference" -> {<<"morning">>}
    [] step = "reschedule_time" -> {<<"11:00-11:15 AM">>}
    [] OTHER -> {}

\* two users who both know the appointment ids: each may cancel any
\* appointment of its chatbot's cache, or ask to move it
SharedControlInputs(bot) ==
  PairControlInputs(bot)
  \cup {<<"cancel", "appointment", id>> : id \in Keys(bot.appointments)}
  \cup {<<"reschedule", "appointment", id, DateStr[2], "11:15 AM">> :
          id \in Keys(bot.appointments)}

\* what a user may type when asked for the age and the gender
IntakeStepInputs(step) ==
  CASE step = "collect_age" ->
         {<<"0">>, <<"25">>, <<"119">>, <<"120">>, <<"200">>, <<"zzz">>,
          <<"25", "years">>, <<SuperscriptTwo>>}
    [] step = "collect_gender" -> {<<"male">>, <<"other">>, <<"zzz">>}
    [] OTHER -> PairStepInputs(step)

\* what a user may type when asked for morning or evening, or for a yes;
\* this user also asks by name for a doctor who was not among the options,
\* books for two patients, and answers the questions of a reschedule flow
HalfdayStepInputs(step) ==
  CASE step = "select_doctor" -> {<<"a">>, <<"dr.", "batra">>}
    [] step = "collect_name" -> {<<"asha", "rao">>, <<"mina", "das">>}
    [] step = "select_date" -> {<<DateStr[1]>>, <<DateStr[2]>>}
    [] step = "reschedule_date" -> {<<DateStr[1]>>}
    [] step = "select_time_preference" ->
         {<<"yes">>, <<"morning">>, <<"evening">>, <<"yes", "evening">>,
          <<"morning", "or", "evening">>, <<"zzz">>}
    [] step = "reschedule_time_preference" ->
         {<<"yes">>, <<"morning">>, <<"evening">>}
    [] step \in {"select_time", "reschedule_time"} ->
         {<<"11:00-11:15 AM">>, <<"2:00-2:15 PM">>}
    [] OTHER -> PairStepInputs(step)

Inputs(bot, sc) ==
  CASE sc = "whatsapp" ->
         PairStepInputs(bot.booking_state.step) \cup PairControlInputs(bot)
         \cup {<<"hi">>}
    [] sc = "halfday" ->
         HalfdayStepInputs(bot.booking_state.step) \cup PairControlInputs(bot)
         \cup (IF bot.is_booking_active \/ bot.appointments = <<>> THEN {}
               ELSE {<<"reschedule", "appointment", bot.appointments[1].id>>})
    [] sc = "intake" ->
         IntakeStepInputs(bot.booking_state.step) \cup PairControlInputs(bot)
    [] sc = "web" ->
         PairStepInputs(bot.booking_state.step) \cup PairControlInputs(bot)
         \cup {<<"hi">>, <<"cancel", "booking">>, <<"stop", "booking">>, <<"fever">>}
    [] sc = "solo" ->
         SoloStepInputs(bot.booking_state.step)
         \cup {<<"book", "appointment">>, <<"cancel", "booking">>}
    [] sc = "ledger" ->
         LedgerStepInputs(bot.booking_state.step) \cup LedgerControlInputs(bot)
    [] sc = "shared" ->
         PairStepInputs(bot.booking_state.step) \cup SharedControlInputs(bot)
    [] sc = "confirm" ->
         PairStepInputs(bot.booking_state.step) \cup PairControlInputs(bot)
    [] sc = "full" ->
         (IF bot.booking_state.step = "select_specialty"
          THEN {<<"a">>, <<"b">>, <<"c">>}
          ELSE PairStepInputs(bot.booking_state.step))
         \cup PairControlInputs(bot)
    [] sc = "desk" ->
         PairStepInputs(bot.booking_state.step) \cup DeskControlInputs(bot)
    [] OTHER ->
         PairStepInputs(bot.booking_state.step) \cup PairControlInputs(bot)

\* the users who send messages
Senders(sc) == IF sc \in {"pair", "web", "shared"} THEN Users ELSE {"u1"}

\* the calls of process_message explored: the message, the sender phone and
\* the outcome of the worksheet write (done, or an exception of the API call).
\* A lone user also sends the name without a sender phone, and also meets a
\* failing write of the appointment row.
Calls(u, bot, sc) ==
  LET step == bot.booking_state.step
      phones == IF sc = "solo" /\ step = "collect_name"
                THEN {ChannelPhone(u), <<>>}
                ELSE IF sc = "web" /\ u = "u2" THEN {NoPhone}
                ELSE {ChannelPhone(u)}
      outcomes == IF sc = "solo" /\ step = "confirm" THEN BOOLEAN ELSE {TRUE}
      messages == IF sc = "shared" /\ u = "u2"
                  THEN {m \in Inputs(bot, sc) : is_cancel_request(m)}
                  ELSE Inputs(bot, sc)
  IN {[message |-> m, phone |-> ph, sheet_ok |-> ok] :
        m \in messages, ph \in phones, ok \in outcomes}

\* ------------------------------------------------------- the pathology bot
\* PathologyBot keeps a ConversationState (user id -> current_state and
\* context; language and last_buttons are never read) and a Database whose
\* tests dict mirrors the "tests" worksheet.  A message is its text; a
\* context key that is absent holds None.  Before any message: no
\* conversation, no test, an empty worksheet.
NoPathology == [states |-> <<>>, tests |-> <<>>, tests_sheet |-> <<>>, reply |-> None]

\* ConversationState.update_state: get_state creates the user's entry in
\* state START with an empty context; the state is set and the keyword
\* arguments are merged into the context
update_state(p, user_id, new_state, kwargs) ==
  LET state == IF user_id \in Keys(p.states) THEN Get(p.states, user_id)
               ELSE [current_state |-> "START",
                     context |-> [test |-> None, slot |-> None,
                                  name |-> None, phone |-> None]]
  IN [p EXCEPT !.states =
        Put(p.states, user_id,
            [current_state |-> new_state, context |-> Merge(state.context, kwargs)])]

\* Database.book_test: the test is stored in memory under a fresh id, then
\* appended to the worksheet; when append_row raises, save() rewrites the
\* worksheet from memory, and when that fails too the worksheet keeps its rows
book_test(p, user_id, test_name, date_time, user_name, phone, now, write) ==
  LET test_id == "APT" \o ToString(Len(p.tests))
      data == [user_id |-> user_id, test_name |-> test_name,
               date_time |-> date_time, status |-> "booked",
               user_name |-> user_name, phone |-> phone, booking_time |-> now]
      tests == Put(p.tests, test_id, data)
  IN [p EXCEPT !.tests = tests,
               !.tests_sheet = CASE write = "appended" ->
                                      Append(p.tests_sheet, [id |-> test_id, data |-> data])
                                 [] write = "saved" -> tests
                                 [] OTHER -> p.tests_sheet]

\* the test selection if it stored whatever was typed
TestSelectionUnchecked(p, user_id, message) ==
  Reply(update_state(p, user_id, "SELECT_SLOT", [test |-> message]), "slot_buttons")

_handle_test_selection(p, user_id, message) ==
  IF message \notin {"CBC", "RBC"} THEN Reply(p, "invalid_selection")
  ELSE Reply(update_state(p, user_id, "SELECT_SLOT", [test |-> message]), "slot_buttons")

\* PathologyBot.get_response with the handlers it calls.  A lookup of an
\* absent context key, or of test_details for a test it does not list, raises
\* KeyError out of get_response, after the state updates made before it.
get_response(p, user_id, message, now, write) ==
  LET message_lower == CASE message = "CBC" -> "cbc"
                         [] message = "RBC" -> "rbc"
                         [] OTHER -> message
      start_keywords == {"hi", "hello", "start", "menu", "main menu", "home", "okay"}
      NoKwargs == [k \in {} |-> None]
      Context(q) == Get(q.states, user_id).context
      current_state == IF user_id \in Keys(p.states)
                       THEN Get(p.states, user_id).current_state ELSE "START"
      _handle_start(q) ==
        Reply(update_state(q, user_id, "MAIN_MENU", NoKwargs), "welcome")
      _handle_main_menu(q) ==
        IF message = "1"
        THEN Reply(update_state(q, user_id, "BOOK_TEST", NoKwargs), "category_buttons")
        ELSE IF message = "2" THEN Reply(q, "appointments")
        ELSE IF message_lower \in {"menu", "main menu"} THEN Reply(q, "choose_valid_option")
        ELSE Reply(q, "api_reply")
      _handle_test_type(q) ==
        Reply(update_state(q, user_id, "SELECT_TEST", NoKwargs), "test_buttons")
      _handle_slot_selection(q) ==
        Reply(update_state(q, user_id, "GET_NAME", [slot |-> message]), "name_prompt")
      _handle_get_name(q) ==
        Reply(update_state(q, user_id, "GET_PHONE", [name |-> message]), "phone_prompt")
      _handle_get_phone(q) ==
        LET c == Context(q)
            details == [test |-> c.test, slot |-> c.slot, name |-> c.name,
                        phone |-> message]
        IN IF c.test = None \/ c.slot = None \/ c.name = None THEN Raised(q)
           ELSE IF c.test \notin {"CBC", "RBC"}
           THEN Raised(update_state(q, user_id, "CONFIRM", details))
           ELSE Reply(update_state(q, user_id, "CONFIRM", details), "confirm_buttons")
      _handle_confirmation(q) ==
        LET c == Context(q)
        IN IF message_lower = "yes"
           THEN IF c.test = None \/ c.slot = None \/ c.name = None \/ c.phone = None
                THEN Raised(q)
                ELSE Reply(update_state(
                             book_test(q, user_id, c.test, c.slot, c.name, c.phone,
                                       now, write),
                             user_id, "MAIN_MENU", NoKwargs),
                           "booking_confirmed")
           ELSE Reply(update_state(q, user_id, "MAIN_MENU", NoKwargs), "booking_cancelled")
      Override(new_state) == update_state(p, user_id, new_state, NoKwargs)
      q0 == update_state(p, user_id, current_state, NoKwargs)
  IN IF message_lower \in start_keywords THEN _handle_start(Override("START"))
     ELSE IF message_lower = "book test" THEN _handle_test_type(Override("BOOK_TEST"))
     ELSE IF message_lower = "select test"
     THEN _handle_test_selection(Override("SELECT_TEST"), user_id, message)
     ELSE IF message_lower = "select slot" THEN _handle_slot_selection(Override("SELECT_SLOT"))
     ELSE IF message_lower = "name" THEN _handle_get_name(Override("GET_NAME"))
     ELSE IF message_lower = "phone" THEN _handle_get_phone(Override("GET_PHONE"))
     ELSE IF message_lower = "confirm" THEN _handle_confirmation(Override("CONFIRM"))
     ELSE IF current_state = "START" THEN _handle_start(q0)
     ELSE IF current_state = "BOOK_TEST" THEN _handle_test_type(q0)
     ELSE IF current_state = "SELECT_TEST" THEN _handle_test_selection(q0, user_id, message)
     ELSE IF current_state = "SELECT_SLOT" THEN _handle_slot_selection(q0)
     ELSE IF current_state = "GET_NAME" THEN _handle_get_name(q0)
     ELSE IF current_state = "GET_PHONE" THEN _handle_get_phone(q0)
     ELSE IF current_state = "CONFIRM" THEN _handle_confirmation(q0)
     ELSE _handle_main_menu(q0)

\* -------------------------------------------------------------- behaviour
NoCall ==
  [user |-> None, message |-> <<>>, phone |-> <<>>, sheet_ok |-> TRUE,
   step |-> None, reply |-> None]

InitData ==
  /\ bots = [u \in Users |-> NoBot]
  /\ appointments_sheet = <<>>
  /\ patients_sheet = <<>>
  /\ clock = 0
  /\ last = NoCall
  /\ pathology = NoPathology

\* the doctors worksheet as MedicalDatabase.__init__ fills it, nothing typed
SeededCatalog ==
  [doctors |-> DoctorsData, step |-> None, specialty_options |-> <<>>,
   selected_specialty |-> None, doctor_options |-> <<>>, doctor_id |-> None,
   message |-> <<>>]

Init == InitData /\ scenario = "pair" /\ catalog = SeededCatalog

InitSolo == InitData /\ scenario = "solo" /\ catalog = SeededCatalog

InitDesk == InitData /\ scenario = "desk" /\ catalog = SeededCatalog

\* an appointments worksheet holding, for every doctor, a confirmed
\* appointment in every slot of every day of the scan horizon; row `freed`,
\* if there is one, is a cancelled appointment
SlotsPerDay == Len(morning_slots) + Len(evening_slots)

SlotsPerDoctor == days_to_check * SlotsPerDay

BookedOut(freed) ==
  [k \in 1..(Len(DoctorIds) * SlotsPerDoctor) |->
     LET doctor_id == DoctorIds[((k - 1) \div SlotsPerDoctor) + 1]
         r == (k - 1) % SlotsPerDoctor
     IN [id |-> "APPT-2026110409" \o ToString(1000 + k),
         data |-> [doctor_id |-> doctor_id, patient_id |-> "patient_20261104090000",
                   date |-> DateStr[(r \div SlotsPerDay) + 1],
                   time |-> (morning_slots \o evening_slots)[(r % SlotsPerDay) + 1],
                   reason |-> <<"checkup">>, name |-> <<"mina", "das">>,
                   phone |-> <<"9000000000">>,
                   status |-> IF k = freed THEN "cancelled" ELSE "confirmed",
                   specialty |-> DoctorsData[doctor_id].specialty,
                   rescheduled |-> FALSE]]]

\* no cancelled row (0), or the first row of one doctor cancelled
FreedRows == {0} \cup {(i - 1) * SlotsPerDoctor + 1 : i \in DOMAIN DoctorIds}

InitFull ==
  /\ bots = [u \in Users |-> NoBot]
  /\ \E freed \in FreedRows : appointments_sheet = BookedOut(freed)
  /\ patients_sheet = <<>>
  /\ clock = 0
  /\ last = NoCall
  /\ pathology = NoPathology
  /\ scenario = "full"
  /\ catalog = SeededCatalog

\* the rows the appointments worksheet may grow to
RowLimit(sc) ==
  IF sc = "full" THEN Len(DoctorIds) * SlotsPerDoctor + MaxRows
  ELSE IF sc = "calendar" THEN SlotsPerDoctor + MaxRows
  ELSE IF sc = "halfday" THEN SlotsPerDay + MaxRows
  ELSE IF sc = "ledger" THEN Len(EarlierIds) + MaxRows
  ELSE MaxRows

\* get_or_create_user_bot: a new MedicalChatbot loads its own cache from the
\* worksheets; an existing one is returned as it is
get_or_create_user_bot(u) ==
  IF bots[u].created THEN bots[u]
  ELSE LET data == _load_db(appointments_sheet, patients_sheet)
       IN [NoBot EXCEPT !.created = TRUE,
                        !.appointments = data.appointments,
                        !.patients = data.patients]

\* one message of user u: get_or_create_user_bot(u).process_message(m, phone)
Process(u) ==
  LET bot == get_or_create_user_bot(u)
  IN \E call \in Calls(u, bot, scenario) :
       LET w == process_message(
                  [bot |-> bot, asheet |-> appointments_sheet,
                   psheet |-> patients_sheet, reply |-> None],
                  call.message, call.phone, clock, call.sheet_ok)
       IN /\ u \in Senders(scenario)
          /\ Len(w.asheet) <= RowLimit(scenario)
          /\ bots' = [bots EXCEPT ![u] = w.bot]
          /\ appointments_sheet' = w.asheet
          /\ patients_sheet' = w.psheet
          /\ last' = [user |-> u, message |-> call.message,
                      phone |-> call.phone, sheet_ok |-> call.sheet_ok,
                      step |-> bot.booking_state.step, reply |-> w.reply]
          /\ UNCHANGED <<clock, scenario, catalog, pathology>>

\* a second passes
Tick ==
  /\ clock < MaxClock
  /\ clock' = clock + 1
  /\ UNCHANGED <<bots, appointments_sheet, patients_sheet, scenario, last,
                 catalog, pathology>>

Next == Tick \/ \E u \in Users : Process(u)

Spec == Init /\ [][Next]_vars

SpecSolo == InitSolo /\ [][Next]_vars

SpecDesk == InitDesk /\ [][Next]_vars

SpecFull == InitFull /\ [][Next]_vars

\* BookingState as the happy path leaves it at step confirm
ConfirmState ==
  [EmptyState EXCEPT
     !.step = "confirm", !.in_progress = TRUE,
     !.specialty_options = SpecialtyOptions, !.selected_specialty = "cardiology",
     !.doctor_options = <<"dr_shah">>, !.doctor_id = "dr_shah",
     !.available_dates = <<DateStr[1], DateStr[2], DateStr[3]>>,
     !.date = DateStr[1],
     !.time_preference_options = <<"morning", "evening">>,
     !.time_preference = "morning",
     !.available_slots = morning_slots, !.time = morning_slots[1],
     !.name = <<"asha", "rao">>, !.phone = <<"9725193559">>,
     !.age = "25", !.gender = "male"]

\* the confirm step studied on its own: a session at step confirm whose
\* BookingState has each of name, phone, doctor_id, date and time either as
\* the flow stores it or missing
ConfirmStates ==
  {[ConfirmState EXCEPT !.name = n, !.phone = ph, !.doctor_id = d,
                        !.date = dt, !.time = t] :
     n \in {ConfirmState.name, <<>>}, ph \in {ConfirmState.phone, <<>>},
     d \in {ConfirmState.doctor_id, None}, dt \in {ConfirmState.date, None},
     t \in {ConfirmState.time, None}}

InitConfirm ==
  /\ \E bs \in ConfirmStates :
       bots = [u \in Users |->
                IF u = "u1"
                THEN [NoBot EXCEPT !.created = TRUE, !.is_booking_active = TRUE,
                                   !.booking_state = bs,
                                   !.current_patient_id = TempId(0)]
                ELSE NoBot]
  /\ appointments_sheet = <<>>
  /\ patients_sheet = <<>>
  /\ clock = 0
  /\ last = NoCall
  /\ pathology = NoPathology
  /\ scenario = "confirm"
  /\ catalog = SeededCatalog

SpecConfirm == InitConfirm /\ [][Next]_vars

\* the age and gender steps studied on their own: a session at step
\* collect_age, with BookingState and the patient record as the happy path
\* leaves them there
InitIntake ==
  /\ bots = [u \in Users |->
              IF u = "u1"
              THEN [NoBot EXCEPT !.created = TRUE, !.is_booking_active = TRUE,
                                 !.booking_state =
                                   [ConfirmState EXCEPT !.step = "collect_age",
                                                        !.age = None,
                                                        !.gender = None],
                                 !.current_patient_id = TempId(0),
                                 !.patients =
                                   <<[id |-> TempId(0),
                                      data |-> [NewPatient EXCEPT
                                                  !.name = ConfirmState.name,
                                                  !.phone = ConfirmState.phone]]>>]
              ELSE NoBot]
  /\ appointments_sheet = <<>>
  /\ patients_sheet = <<[id |-> TempId(0),
                         data |-> [NewPatient EXCEPT !.name = ConfirmState.name,
                                                     !.phone = ConfirmState.phone]]>>
  /\ clock = 0
  /\ last = NoCall
  /\ pathology = NoPathology
  /\ scenario = "intake"
  /\ catalog = SeededCatalog

SpecIntake == InitIntake /\ [][Next]_vars

\* an appointments worksheet written on earlier days: an appointment of
\* yesterday as the booking flow stores it (a range label), one of yesterday
\* as a reschedule request stores it (a single time), one of tomorrow
EarlierRows ==
  LET row(k, date, time, moved) ==
        [id |-> EarlierIds[k],
         data |-> [doctor_id |-> "dr_shah", patient_id |-> "patient_20261103090000",
                   date |-> date, time |-> time, reason |-> <<"checkup">>,
                   name |-> <<"mina", "das">>, phone |-> <<"9000000000">>,
                   status |-> "confirmed", specialty |-> "cardiology",
                   rescheduled |-> moved]]
  IN <<row(1, Calendar[1], "10:45-11:00 AM", FALSE),
       row(2, Calendar[1], "11:00 AM", TRUE),
       row(3, DateStr[1], "10:45-11:00 AM", FALSE)>>

InitLedger ==
  /\ bots = [u \in Users |-> NoBot]
  /\ appointments_sheet = EarlierRows
  /\ patients_sheet = <<>>
  /\ clock = 0
  /\ last = NoCall
  /\ pathology = NoPathology
  /\ scenario = "ledger"
  /\ catalog = SeededCatalog

SpecLedger == InitLedger /\ [][Next]_vars

\* an appointments worksheet in which the cardiologist has a confirmed
\* appointment in every slot of each day of `days` (days of the scan horizon,
\* counted from tomorrow)
BookedDays(days) ==
  [k \in 1..(Cardinality(days) * SlotsPerDay) |->
     LET n == ((k - 1) \div SlotsPerDay) + 1
         day == CHOOSE i \in days : Cardinality({j \in days : j <= i}) = n
     IN [id |-> "APPT-2026110409" \o ToString(1000 + k),
         data |-> [doctor_id |-> "dr_shah", patient_id |-> "patient_20261104090000",
                   date |-> DateStr[day],
                   time |-> (morning_slots \o evening_slots)[((k - 1) % SlotsPerDay) + 1],
                   reason |-> <<"checkup">>, name |-> <<"mina", "das">>,
                   phone |-> <<"9000000000">>, status |-> "confirmed",
                   specialty |-> "cardiology", rescheduled |-> FALSE]]]

\* a user books while any days of the horizon are booked out
InitCalendar ==
  /\ bots = [u \in Users |-> NoBot]
  /\ \E days \in SUBSET (1..days_to_check) : appointments_sheet = BookedDays(days)
  /\ patients_sheet = <<>>
  /\ clock = 0
  /\ last = NoCall
  /\ pathology = NoPathology
  /\ scenario = "calendar"
  /\ catalog = SeededCatalog

SpecCalendar == InitCalendar /\ [][Next]_vars

\* an appointments worksheet in which the cardiologist has, tomorrow, a
\* confirmed appointment in every slot of `slots`
BookedSlots(slots) ==
  [k \in DOMAIN slots |->
     [id |-> "APPT-2026110409" \o ToString(1000 + k),
      data |-> [doctor_id |-> "dr_shah", patient_id |-> "patient_20261104090000",
                date |-> DateStr[1], time |-> slots[k],
                reason |-> <<"checkup">>, name |-> <<"mina", "das">>,
                phone |-> <<"9000000000">>, status |-> "confirmed",
                specialty |-> "cardiology", rescheduled |-> FALSE]]]

\* a user books while tomorrow's morning or tomorrow's evening is booked out
InitHalfday ==
  /\ bots = [u \in Users |-> NoBot]
  /\ \E slots \in {morning_slots, evening_slots} :
       appointments_sheet = BookedSlots(slots)
  /\ patients_sheet = <<>>
  /\ clock = 0
  /\ last = NoCall
  /\ pathology = NoPathology
  /\ scenario = "halfday"
  /\ catalog = SeededCatalog

SpecHalfday == InitHalfday /\ [][Next]_vars

\* one WhatsApp message of user u through gupshup_webhook.  The sender is
\* the only user of this specification, so recent_messages[u] is the message
\* of `last`.  A message equal to it is dropped unanswered; a message with a
\* word of GREETING_PATTERNS is answered with the global menu; every other
\* message goes to process_message of the user's chatbot.
gupshup_webhook(u) ==
  LET bot == get_or_create_user_bot(u)
  IN \E call \in Calls(u, bot, scenario) :
       LET m == call.message
           repeated == last.user = u /\ last.message = m
           greeting ==
             \/ \E i \in DOMAIN m :
                  m[i] \in {"hi", "hii", "hiii", "hello", "hey", "howdy", "greetings",
                            "namaste", "hola", "start", "menu", "help"}
             \/ \E i \in 1..(Len(m) - 1) :
                  m[i] = "good" /\ m[i + 1] \in {"morning", "afternoon", "evening", "day"}
           w == process_message(
                  [bot |-> bot, asheet |-> appointments_sheet,
                   psheet |-> patients_sheet, reply |-> None],
                  m, call.phone, clock, call.sheet_ok)
           handled == ~repeated /\ ~greeting
       IN /\ u \in Senders(scenario)
          /\ Len(w.asheet) <= RowLimit(scenario)
          /\ bots' = IF handled THEN [bots EXCEPT ![u] = w.bot] ELSE bots
          /\ appointments_sheet' = IF handled THEN w.asheet ELSE appointments_sheet
          /\ patients_sheet' = IF handled THEN w.psheet ELSE patients_sheet
          /\ last' = [user |-> u, message |-> m, phone |-> call.phone,
                      sheet_ok |-> call.sheet_ok, step |-> bot.booking_state.step,
                      reply |-> IF repeated THEN "dropped"
                                ELSE IF greeting THEN "global_menu" ELSE w.reply]
          /\ UNCHANGED <<clock, scenario, catalog, pathology>>

NextWebhook == Tick \/ \E u \in Users : gupshup_webhook(u)

InitWebhook == InitData /\ scenario = "whatsapp" /\ catalog = SeededCatalog

SpecWebhook == InitWebhook /\ [][NextWebhook]_vars

\* u1 books and cancels, u2 cancels what u1 booked
InitShared == InitData /\ scenario = "shared" /\ catalog = SeededCatalog

SpecShared == InitShared /\ [][Next]_vars

\* u1 writes through the messaging webhook, u2 through the /chat page, which
\* calls process_message without a phone
InitWeb == InitData /\ scenario = "web" /\ catalog = SeededCatalog

SpecWeb == InitWeb /\ [][Next]_vars

\* ----------------------------------------------- option resolution alone
\* select_specialty and select_doctor over doctors worksheets other than the
\* seeded one: the names and specialties a worksheet row may carry here
CatalogNames == {<<"dr.", "shah">>, <<"dr.", "shah", "khan">>, <<"dr.", "batra">>}

CatalogSpecialties == {"cardiology", "pediatric cardiology", "general practice"}

\* the worksheets in which no two doctors have the same name
CatalogTables ==
  {t \in [Range(DoctorIds) -> [name : CatalogNames, specialty : CatalogSpecialties]] :
     \A d, e \in Range(DoctorIds) : d # e => t[d].name # t[e].name}

\* the letters of n options, each as a message
LetterMessages(n) == {<<Letters[i]>> : i \in 1..n}

InitCatalog ==
  /\ InitData
  /\ scenario = "catalog"
  /\ \E t \in CatalogTables :
       catalog = [SeededCatalog EXCEPT
                    !.doctors = t,
                    !.step = "select_specialty",
                    !.specialty_options =
                       SortStrings({t[d].specialty : d \in Range(DoctorIds)})]

\* the select_specialty step on a letter or on the name of an option as
\* the prompt shows it
CatalogSelectSpecialty ==
  /\ scenario = "catalog"
  /\ catalog.step = "select_specialty"
  /\ \E m \in LetterMessages(Len(catalog.specialty_options))
              \cup {<<catalog.specialty_options[i]>> :
                      i \in DOMAIN catalog.specialty_options} :
       LET opts == catalog.specialty_options
           k == ResolveSpecialty(opts, m)
           InSpecialty(d) == catalog.doctors[d].specialty = opts[k]
       IN /\ k # 0
          /\ catalog' = [catalog EXCEPT
                           !.step = "select_doctor",
                           !.selected_specialty = opts[k],
                           !.doctor_options = SelectSeq(DoctorIds, InSpecialty),
                           !.message = m]
  /\ UNCHANGED <<bots, appointments_sheet, patients_sheet, clock, scenario, last,
                 pathology>>

\* the select_doctor step on a letter or on the name of an option as the
\* prompt shows it
CatalogSelectDoctor ==
  /\ scenario = "catalog"
  /\ catalog.step = "select_doctor"
  /\ \E m \in LetterMessages(Len(catalog.doctor_options))
              \cup {catalog.doctors[catalog.doctor_options[i]].name :
                      i \in DOMAIN catalog.doctor_options} :
       LET selected == ResolveDoctor(catalog.doctor_options, DoctorIds,
                                     catalog.doctors, m)
       IN /\ selected # None
          /\ catalog' = [catalog EXCEPT !.step = "select_date",
                                        !.doctor_id = selected,
                                        !.message = m]
  /\ UNCHANGED <<bots, appointments_sheet, patients_sheet, clock, scenario, last,
                 pathology>>

NextCatalog == CatalogSelectSpecialty \/ CatalogSelectDoctor

SpecCatalog == InitCatalog /\ [][NextCatalog]_vars

\* ------------------------------------------------- the terms of the claims
\* the steps of a booking, in their fixed order
FlowOrder ==
  <<"select_specialty", "select_doctor", "select_date", "select_time_preference",
    "select_time", "collect_name", "collect_phone", "collect_age",
    "collect_gender", "confirm">>

StepRank(step) == CHOOSE i \in DOMAIN FlowOrder : FlowOrder[i] = step

\* the step a valid input leads to; the flow completes after confirm, and
\* the completed flow leaves the empty state, whose step is None
Successor(step, phone_supplied) ==
  IF step = "confirm" THEN None
  ELSE IF step = "collect_name" /\ phone_supplied THEN "collect_age"
  ELSE FlowOrder[StepRank(step) + 1]

\* an input the step asks for: an option on offer, a non-blank text, an age
\* or a gender the step accepts, any text as the reason
ValidInput(bs, m) ==
  CASE bs.step = "select_specialty" ->
         \/ LetterIndex(m, Len(bs.specialty_options)) # 0
         \/ \E sp \in Range(bs.specialty_options) : Contains(m, sp)
    [] bs.step = "select_doctor" ->
         \/ LetterIndex(m, Len(bs.doctor_options)) # 0
         \/ \E d \in Range(bs.doctor_options) : HasPhrase(m, DoctorsData[d].name)
    [] bs.step = "select_date" ->
         Len(m) = 1 /\ m[1] \in Range(bs.available_dates)
    [] bs.step = "select_time_preference" ->
         \E pr \in Range(bs.time_preference_options) : Contains(m, pr)
    [] bs.step = "select_time" ->
         \E slot \in Range(bs.available_slots) : Has(m, slot)
    [] bs.step \in {"collect_name", "collect_phone", "confirm"} -> m # <<>>
    [] bs.step = "collect_age" ->
         Len(m) = 1 /\ AgeValue(m[1]) > 0 /\ AgeValue(m[1]) < 120
    [] bs.step = "collect_gender" ->
         Len(m) = 1 /\ m[1] \in {"male", "female", "other"}
    [] OTHER -> FALSE

\* a message that is a command of its own, whatever the step
IsCommand(m) ==
  \/ IsReset(m)
  \/ IsCancelBooking(m)
  \/ is_booking_request(m)
  \/ is_cancel_request(m)
  \/ is_reschedule_request(m)

\* a message that contains one of the start keywords
HasStartKeyword(m) ==
  \/ Contains(m, "book")
  \/ Contains(m, "appointment")
  \/ Contains(m, "schedule")
  \/ HasPhrase(m, <<"see", "a", "doctor">>)

\* an input of a kind the step rejects: it is not what the step asks for,
\* and it is no command and no restart
Rejected(bs, m) ==
  /\ bs.step \in Range(FlowOrder) \ {"confirm"}
  /\ ~ValidInput(bs, m)
  /\ ~IsCommand(m)
  /\ ~IsStartInput(m)

\* two records name the same doctor, date and time
SameSlot(a, b) ==
  a.doctor_id = b.doctor_id /\ a.date = b.date /\ a.time = b.time

\* the worksheet holds a non-cancelled appointment for the slot of bs
SlotHeld(rows, bs) ==
  \E i \in DOMAIN rows :
    rows[i].data.status # "cancelled" /\ SameSlot(rows[i].data, bs)

\* BookingState right after a flow has started
StartState ==
  [EmptyState EXCEPT !.in_progress = TRUE, !.step = "select_specialty",
                     !.specialty_options = SpecialtyOptions]

\* the replies that abort a flow
FatalReplies ==
  {"missing_patient_information", "missing_appointment_details", "system_error"}

\* this step is a process_message call of user u (last' describes the call)
Sends(u) == clock' = clock /\ last'.user = u

\* ---------------------------------------------------------------- claims
\* C1: no double-booking.  In the appointments worksheet no two appointments
\* whose status is not cancelled have the same doctor, date and time.
C1_NoDoubleBooking ==
  \A i, j \in DOMAIN appointments_sheet :
    (/\ i < j
     /\ appointments_sheet[i].data.status # "cancelled"
     /\ appointments_sheet[j].data.status # "cancelled")
    => ~SameSlot(appointments_sheet[i].data, appointments_sheet[j].data)

\* C2: slot just taken.  Two users are at step confirm with the same doctor,
\* date and time; one sends the reason and is booked; when the other sends
\* the reason next, the reply is the conflict message, no row is written and
\* the BookingState of that user is cleared.
C2_SlotJustTaken ==
  [][\A u \in Users :
       LET bs == bots[u].booking_state
           n == Len(appointments_sheet)
       IN (/\ Sends(u)
           /\ bs.step = "confirm"
           /\ last.user \notin {u, None}
           /\ last.step = "confirm"
           /\ last.reply = "appointment_booked"
           /\ n > 0
           /\ SameSlot(appointments_sheet[n].data, bs))
          => (/\ last'.reply = "slot_taken"
              /\ appointments_sheet' = appointments_sheet
              /\ bots'[u].booking_state = EmptyState)]_vars

\* C3: slot computation.  In every chatbot, for every doctor and date, the
\* available slots (no preference) and the times of the doctor's
\* non-cancelled appointments on the date are disjoint, and together they
\* are the slot catalog.
C3_SlotsPartitionCatalog ==
  \A u \in Users :
    bots[u].created =>
      \A d \in Range(DoctorIds), date \in Range(DateStr) :
        LET available == Range(_get_available_slots(bots[u].appointments, d, date, None))
            booked == booked_times(bots[u].appointments, d, date)
        IN /\ available \cap booked = {}
           /\ available \cup booked = Range(morning_slots \o evening_slots)

\* C4: monotonic step progression.  A valid input at a step of an active
\* booking moves the step to the next one of the fixed order (collect_phone
\* being skipped exactly when the channel supplies a phone), and to complete
\* after confirm.
C4_MonotonicSteps ==
  [][\A u \in Users :
       LET bs == bots[u].booking_state
       IN (/\ Sends(u)
           /\ bots[u].is_booking_active
           /\ bs.step \in Range(FlowOrder)
           /\ ValidInput(bs, last'.message)
           /\ ~IsCommand(last'.message))
          => bots'[u].booking_state.step = Successor(bs.step, last'.phone # <<>>)]_vars

\* C5: happy path.  A reason sent at step confirm of a flow driven by valid
\* inputs, the worksheet accepting the write, is answered with the
\* confirmation; exactly one row is appended, with status confirmed and the
\* doctor, date, time, name and phone of the flow and the reason as sent,
\* and BookingState is cleared.
C5_HappyPath ==
  [][\A u \in Users :
       LET bs == bots[u].booking_state
           n == Len(appointments_sheet)
       IN (/\ Sends(u)
           /\ bots[u].is_booking_active
           /\ bs.step = "confirm"
           /\ last'.message # <<>>
           /\ ~IsCommand(last'.message)
           /\ last'.sheet_ok
           /\ ApptId(clock) \notin Keys(bots[u].appointments))
          => (/\ last'.reply = "appointment_booked"
              /\ Len(appointments_sheet') = n + 1
              /\ SubSeq(appointments_sheet', 1, n) = appointments_sheet
              /\ appointments_sheet'[n + 1].id = ApptId(clock)
              /\ SameSlot(appointments_sheet'[n + 1].data, bs)
              /\ appointments_sheet'[n + 1].data.name = bs.name
              /\ appointments_sheet'[n + 1].data.phone = bs.phone
              /\ appointments_sheet'[n + 1].data.reason = last'.message
              /\ appointments_sheet'[n + 1].data.status = "confirmed"
              /\ bots'[u].booking_state = EmptyState
              /\ ~bots'[u].is_booking_active)]_vars

\* C6: start keywords start a flow only while no booking is active.  A
\* message with a start keyword that arrives at a step after
\* select_specialty of an active booking does not take the step back to
\* select_specialty.
C6_KeywordsDoNotRestart ==
  [][\A u \in Users :
       LET bs == bots[u].booking_state
       IN (/\ Sends(u)
           /\ bots[u].is_booking_active
           /\ bs.step \in Range(FlowOrder) \ {"select_specialty"}
           /\ HasStartKeyword(last'.message))
          => bots'[u].booking_state.step # "select_specialty"]_vars

\* C7: every message processed at step confirm (a text that is no command
\* of its own) is the reason and ends the flow: afterwards BookingState is
\* empty and no booking is active.
C7_ConfirmEndsFlow ==
  [][\A u \in Users :
       (/\ Sends(u)
        /\ bots[u].is_booking_active
        /\ bots[u].booking_state.step = "confirm"
        /\ ~IsCommand(last'.message))
       => (/\ bots'[u].booking_state = EmptyState
           /\ ~bots'[u].is_booking_active)]_vars

\* C8: final race check.  A message at step confirm, when the worksheet
\* already holds a non-cancelled appointment for the doctor, date and time
\* of BookingState, writes no row, clears BookingState and is answered with
\* the slot-taken message.
C8_FinalRaceCheck ==
  [][\A u \in Users :
       LET bs == bots[u].booking_state
       IN (/\ Sends(u)
           /\ bots[u].is_booking_active
           /\ bs.step = "confirm"
           /\ SlotHeld(appointments_sheet, bs))
          => (/\ appointments_sheet' = appointments_sheet
              /\ bots'[u].booking_state = EmptyState
              /\ ~bots'[u].is_booking_active
              /\ last'.reply = "slot_taken")]_vars

\* C9: abort clears state.  When the last reply to a user was a fatal error
\* of the flow, the user's next "book appointment" starts a flow whose
\* session state is that of a first flow: the fresh BookingState and no
\* patient identity.
C9_AbortClearsState ==
  [][\A u \in Users :
       (/\ Sends(u)
        /\ last'.message = <<"book", "appointment">>
        /\ last.user = u
        /\ last.reply \in FatalReplies)
       => (/\ bots'[u].booking_state = StartState
           /\ bots'[u].is_booking_active
           /\ bots'[u].current_patient_id = None)]_vars

PromptText(bs, reply) ==
  [wording |-> reply,
   listed |->
     CASE reply = "specialty_retry" -> bs.specialty_options
       [] reply = "doctor_retry" ->
            [i \in DOMAIN bs.doctor_options |-> DoctorsData[bs.doctor_options[i]]]
       [] reply \in {"date_format_retry", "date_unavailable_retry"} ->
            bs.available_dates
       [] reply \in {"preference_retry", "single_preference_retry"} ->
            bs.time_preference_options
       [] reply = "time_retry" -> bs.available_slots
       [] OTHER -> <<>>]

\* C11: idempotent re-prompt.  Two rejected inputs that a user sends in a
\* row at the same step are answered with the same text.
C11_SameRetryPrompt ==
  [][\A u \in Users :
       LET bs == bots[u].booking_state
       IN (/\ Sends(u)
           /\ bots[u].is_booking_active
           /\ last.user = u
           /\ last.step = bs.step
           /\ Rejected(bs, last.message)
           /\ Rejected(bs, last'.message))
          => PromptText(bots'[u].booking_state, last'.reply)
               = PromptText(bs, last.reply)]_vars

\* ------------------------------------------------------- option round trip
\* C12: option round trip.  At select_specialty and select_doctor a letter
\* selects the option at its position, and the displayed name of an option,
\* typed as it is shown, selects that option.
C12_OptionRoundTrip ==
  /\ catalog.step = "select_doctor" =>
       LET opts == catalog.specialty_options
       IN \A i \in DOMAIN opts :
            (catalog.message = <<Letters[i]>> \/ catalog.message = <<opts[i]>>)
              => catalog.selected_specialty = opts[i]
  /\ catalog.step = "select_date" =>
       LET opts == catalog.doctor_options
       IN \A i \in DOMAIN opts :
            (catalog.message = <<Letters[i]>>
               \/ catalog.message = catalog.doctors[opts[i]].name)
              => catalog.doctor_id = opts[i]

\* ---------------------------------------------------------- no availability
\* no doctor has a free slot on any day of the scan horizon
NoAvailability(appts) ==
  \A i \in DOMAIN DoctorIds : _get_available_dates(appts, DoctorIds[i]) = <<>>

\* C13: no availability.  A start message sent while no doctor has a free
\* slot in the horizon is answered with the no-availability apology and
\* leaves the session idle.
C13_NoAvailabilityApology ==
  [][\A u \in Users :
       (/\ Sends(u)
        /\ last'.message = <<"book", "appointment">>
        /\ NoAvailability(get_or_create_user_bot(u).appointments))
       => /\ last'.reply = "no_availability"
          /\ ~bots'[u].is_booking_active
          /\ bots'[u].booking_state = EmptyState]_vars

\* ------------------------------------------------------------- exceptions
\* C14: unexpected exception.  Every call of process_message ends with a
\* reply: no exception leaves it, also when it is called without a phone.
C14_ExceptionsAnswered ==
  [][\A u \in Users :
       Sends(u) => last'.reply # "raised" /\ last'.reply # None]_vars

\* ------------------------------------------------- state-integrity failure
\* one of the five fields an appointment needs is missing
MissingField(bs) ==
  \/ bs.name = <<>> \/ bs.phone = <<>>
  \/ bs.doctor_id = None \/ bs.date = None \/ bs.time = None

\* C15: state-integrity failure.  When the reason arrives at confirm and
\* name, phone, doctor_id, date or time is missing, no appointment is stored
\* in the cache or the worksheet, BookingState is cleared and the reply
\* tells the user to start again.
C15_MissingFieldAborts ==
  [][\A u \in Users :
       (/\ Sends(u)
        /\ bots[u].is_booking_active
        /\ bots[u].booking_state.step = "confirm"
        /\ ~IsCommand(last'.message)
        /\ ~IsStartInput(last'.message)
        /\ MissingField(bots[u].booking_state))
       => /\ appointments_sheet' = appointments_sheet
          /\ bots'[u].appointments = bots[u].appointments
          /\ bots'[u].booking_state = EmptyState
          /\ ~bots'[u].is_booking_active
          /\ last'.reply \in {"missing_patient_information",
                              "missing_appointment_details"}]_vars

\* a reason was sent at confirm while an appointment field was missing
C15_MissingDetailsSeen ==
  /\ last.step = "confirm"
  /\ last.reply = "missing_appointment_details"

\* ------------------------------------------------------ persistence failure
\* C16: persistence failure.  When the worksheet write of the appointment
\* fails at confirm, the reply is the system-error message, BookingState is
\* cleared and no row is written: the write is not repeated.
C16_WriteFailureAborts ==
  [][\A u \in Users :
       (/\ Sends(u)
        /\ bots[u].is_booking_active
        /\ bots[u].booking_state.step = "confirm"
        /\ ~IsCommand(last'.message)
        /\ ~IsStartInput(last'.message)
        /\ ~is_greeting(last'.message)
        /\ ~MissingField(bots[u].booking_state)
        /\ ~last'.sheet_ok)
       => /\ last'.reply = "system_error"
          /\ bots'[u].booking_state = EmptyState
          /\ ~bots'[u].is_booking_active
          /\ appointments_sheet' = appointments_sheet]_vars

\* a reason was sent at confirm and the worksheet write failed
C16_WriteFailureSeen ==
  /\ last.step = "confirm"
  /\ ~last.sheet_ok
  /\ last.reply = "system_error"

\* ------------------------------------------------- booking-flow cancellation
\* C17: booking-flow cancellation.  'cancel booking' or 'stop booking', at
\* any step, clears BookingState, leaves the session idle and changes no
\* appointment, in the cache or in the worksheet.
C17_CancelBookingClears ==
  [][\A u \in Users :
       (Sends(u) /\ IsCancelBooking(last'.message))
       => /\ bots'[u].booking_state = EmptyState
          /\ ~bots'[u].is_booking_active
          /\ bots'[u].appointments = get_or_create_user_bot(u).appointments
          /\ appointments_sheet' = appointments_sheet
          /\ last'.reply = "booking_canceled"]_vars

\* a flow was stopped at confirm while an appointment was on record
C17_StoppedAtConfirm ==
  /\ last.message = <<"stop", "booking">>
  /\ last.step = "confirm"
  /\ last.reply = "booking_canceled"
  /\ appointments_sheet # <<>>

\* ------------------------------------------------------------ book(id, data)
\* the ids of the rows of a worksheet
RowIds(rows) == {rows[i].id : i \in DOMAIN rows}

\* C18: book(id, data).  A confirmation whose appointment id is already
\* stored is refused and leaves the stored appointments as they are, also
\* when two confirmations produce the same timestamp-based id.
C18_ExistingIdRefused ==
  [][\A u \in Users :
       (/\ Sends(u)
        /\ last'.step = "confirm"
        /\ ApptId(clock) \in RowIds(appointments_sheet))
       => /\ appointments_sheet' = appointments_sheet
          /\ last'.reply # "appointment_booked"]_vars

\* ----------------------------------------------------------------- reschedule
\* the slot a time names: a range label names itself, a single time names
\* the slot that starts then
SlotOf(t) ==
  IF \E x \in Range(morning_slots \o evening_slots) : RangeStart(x) = t
  THEN CHOOSE x \in Range(morning_slots \o evening_slots) : RangeStart(x) = t
  ELSE t

\* an appointment other than appointment_id, not cancelled, holds the slot
\* (date, time) of the doctor
OccupiedByOther(appts, appointment_id, doctor_id, date, time) ==
  \E i \in DOMAIN appts :
    /\ appts[i].id # appointment_id
    /\ appts[i].data.status # "cancelled"
    /\ appts[i].data.doctor_id = doctor_id
    /\ appts[i].data.date = date
    /\ SlotOf(appts[i].data.time) = SlotOf(time)

\* C19: reschedule.  A reschedule request that carries a date and a time
\* succeeds exactly when no other non-cancelled appointment of the same
\* doctor holds that slot, the appointment being moved not counting; on
\* success only its date, time and rescheduled flag change, on rejection
\* nothing changes.
C19_RescheduleWhenFree ==
  [][\A u \in Users :
       LET m == last'.message
           id == ExtractApptId(m)
           appts == bots[u].appointments
           appt == Get(appts, id)
           free == ~OccupiedByOther(appts, id, appt.doctor_id,
                                    ExtractDate(m), ExtractTime(m))
           after == Get(bots'[u].appointments, id)
       IN (/\ Sends(u)
           /\ is_reschedule_request(m)
           /\ id \in Keys(appts)
           /\ ExtractDate(m) # None
           /\ ExtractTime(m) # None
           /\ appt.status # "cancelled")
          => /\ (last'.reply = "appointment_rescheduled") <=> free
             /\ free =>
                  /\ after.date = ExtractDate(m)
                  /\ SlotOf(after.time) = SlotOf(ExtractTime(m))
                  /\ after.rescheduled
                  /\ \A i \in DOMAIN appts :
                       appts[i].id # id => bots'[u].appointments[i] = appts[i]
             /\ ~free =>
                  /\ bots'[u].appointments = appts
                  /\ appointments_sheet' = appointments_sheet]_vars

\* ------------------------------------------------------------------- cancel
\* the worksheet row of the appointment says cancelled
CancelledOnRecord(rows, appointment_id) ==
  \E i \in DOMAIN rows :
    rows[i].id = appointment_id /\ rows[i].data.status = "cancelled"

\* C20: cancel is idempotent.  A cancel request for an appointment that is
\* already cancelled is answered with the already-cancelled message and
\* changes nothing, in the cache or in the worksheet.
C20_CancelTwice ==
  [][\A u \in Users :
       LET m == last'.message
           id == ExtractApptId(m)
       IN (/\ Sends(u)
           /\ is_cancel_request(m)
           /\ id # None
           /\ CancelledOnRecord(appointments_sheet, id))
          => /\ last'.reply = "already_cancelled"
             /\ appointments_sheet' = appointments_sheet
             /\ bots'[u].appointments = get_or_create_user_bot(u).appointments]_vars

\* ------------------------------------------------------ elapsed appointments
\* the appointment of the id as the cache of the chatbot that u reaches holds it
Held(u, appointment_id) == Get(get_or_create_user_bot(u).appointments, appointment_id)

\* the id is on record in the cache that u reaches
OnRecord(u, appointment_id) ==
  appointment_id \in Keys(get_or_create_user_bot(u).appointments)

\* C21: cancel of an elapsed appointment.  A cancel request for an
\* appointment that is not cancelled and whose date has elapsed is refused
\* and leaves the appointment as it is, whatever time label it carries.
C21_ElapsedNotCancelled ==
  [][\A u \in Users :
       LET m == last'.message
           id == ExtractApptId(m)
       IN (/\ Sends(u)
           /\ is_cancel_request(m)
           /\ OnRecord(u, id)
           /\ Held(u, id).status # "cancelled"
           /\ DateElapsed(Held(u, id).date))
          => /\ last'.reply = "cannot_cancel_past"
             /\ Get(bots'[u].appointments, id) = Held(u, id)
             /\ appointments_sheet' = appointments_sheet]_vars

\* the message is a reschedule request that names an appointment
DirectReschedule(m) ==
  /\ ~IsReset(m) /\ ~IsCancelBooking(m) /\ ~is_greeting(m)
  /\ ~(is_cancel_request(m) /\ ExtractApptId(m) # None)
  /\ is_reschedule_request(m)
  /\ ExtractApptId(m) # None

\* the message is the input of a step of a reschedule flow under way
FlowReschedule(bot, m) ==
  /\ ~IsReset(m) /\ ~IsCancelBooking(m) /\ ~is_greeting(m)
  /\ ~(is_cancel_request(m) /\ ExtractApptId(m) # None)
  /\ ~DirectReschedule(m)
  /\ bot.is_booking_active
  /\ bot.booking_state.step
       \in {"reschedule_date", "reschedule_time_preference", "reschedule_time"}

\* the appointment a message is about to move, None when it moves none
RescheduleTarget(bot, m) ==
  IF DirectReschedule(m) THEN ExtractApptId(m)
  ELSE IF FlowReschedule(bot, m) THEN bot.booking_state.original_appointment_id
  ELSE None

\* the message makes process_message call _reschedule_appointment
CallsReschedule(bot, m) ==
  LET bs == bot.booking_state
  IN \/ DirectReschedule(m)
     \/ /\ FlowReschedule(bot, m)
        /\ \/ bs.step = "reschedule_date"
              /\ Len(m) = 1 /\ m[1] \in Range(bs.available_dates)
           \/ bs.step = "reschedule_time"
              /\ \E slot \in Range(bs.available_slots) : Has(m, slot)

\* C22: reschedule of a cancelled or elapsed appointment.  In every phase of
\* the reschedule flow, a message that would move an appointment that is
\* cancelled or whose date has elapsed leaves the appointment as it is, and
\* every call of the reschedule operation for it is refused.
C22_BlockedNotMoved ==
  [][\A u \in Users :
       LET m == last'.message
           bot == get_or_create_user_bot(u)
           id == RescheduleTarget(bot, m)
       IN (/\ Sends(u)
           /\ id # None
           /\ OnRecord(u, id)
           /\ \/ Held(u, id).status = "cancelled"
              \/ CancelledOnRecord(appointments_sheet, id)
              \/ DateElapsed(Held(u, id).date))
          => /\ Get(bots'[u].appointments, id) = Held(u, id)
             /\ appointments_sheet' = appointments_sheet
             /\ CallsReschedule(bot, m) =>
                  last'.reply \in {"cannot_reschedule_cancelled",
                                   "cannot_reschedule_past"}]_vars

C24_InvalidAgeRejected ==
  [][\A u \in Users :
       LET m == last'.message
           ParsesAsAge == Len(m) = 1 /\ AgeValue(m[1]) > 0 /\ AgeValue(m[1]) < 120
       IN (/\ Sends(u)
           /\ last'.step = "collect_age"
           /\ ~IsCommand(m) /\ ~is_greeting(m))
          => /\ bots'[u].booking_state.age # None => ParsesAsAge
             /\ ~ParsesAsAge
                  => /\ last'.reply = "age_retry"
                     /\ bots'[u].booking_state.step = "collect_age"
                     /\ bots'[u].booking_state.age = None]_vars

\* a non-cancelled appointment of the doctor on the date has the slot as time
Taken(appts, doctor_id, date, slot) ==
  \E j \in DOMAIN appts : /\ appts[j].data.doctor_id = doctor_id
                          /\ appts[j].data.date = date
                          /\ appts[j].data.time = slot
                          /\ appts[j].data.status # "cancelled"

\* a cancelled appointment of the doctor on the date has the slot as time,
\* and no other appointment has
FreedByCancel(appts, doctor_id, date, slot) ==
  /\ ~Taken(appts, doctor_id, date, slot)
  /\ \E j \in DOMAIN appts : /\ appts[j].data.doctor_id = doctor_id
                             /\ appts[j].data.date = date
                             /\ appts[j].data.time = slot
                             /\ appts[j].data.status = "cancelled"

\* C25: the availability calculator.  Over the appointments a session holds,
\* for every doctor, date and preference (or none) the calculator returns
\* exactly the catalog slots of the preference that are not the time of a
\* non-cancelled appointment of the doctor on the date, each once and in
\* catalog order; the slot of a cancelled appointment is returned again.
C25_FreeCatalogSlots ==
  \A u \in Users, doctor_id \in Range(DoctorIds), date \in Range(DateStr),
     time_preference \in {None, "morning", "evening"} :
    LET appts == bots[u].appointments
        slots == IF time_preference = "morning" THEN morning_slots
                 ELSE IF time_preference = "evening" THEN evening_slots
                 ELSE morning_slots \o evening_slots
        free == _get_available_slots(appts, doctor_id, date, time_preference)
        PlaceIn(slot) == CHOOSE i \in DOMAIN slots : slots[i] = slot
    IN /\ \A slot \in Range(slots) :
            slot \in Range(free) <=> ~Taken(appts, doctor_id, date, slot)
       /\ Range(free) \subseteq Range(slots)
       /\ \A a, b \in DOMAIN free :
            a < b => PlaceIn(free[a]) < PlaceIn(free[b])
       /\ \A slot \in Range(slots) :
            FreedByCancel(appts, doctor_id, date, slot) => slot \in Range(free)

\* a session that cancelled an appointment is offered its slot again
C25_FreedSlotOffered ==
  \E u \in Users :
    LET bs == bots[u].booking_state
    IN /\ bs.step = "select_time"
       /\ last.user = u /\ last.step = "select_time_preference"
       /\ \E slot \in Range(bs.available_slots) :
            FreedByCancel(bots[u].appointments, bs.doctor_id, bs.date, slot)
       /\ \E slot \in Range(all_slots(bs.time_preference)) :
            /\ Taken(bots[u].appointments, bs.doctor_id, bs.date, slot)
            /\ slot \notin Range(bs.available_slots)

\* the days of the horizon, counted from tomorrow, on which the doctor has a
\* catalog slot that no non-cancelled appointment takes
FreeDays(appts, doctor_id) ==
  {i \in 1..days_to_check :
     \E slot \in Range(morning_slots \o evening_slots) :
       ~Taken(appts, doctor_id, DateStr[i], slot)}

\* C26: the available-dates scan.  Over the appointments a session holds, for
\* every doctor the scan returns the earliest free days of the horizon,
\* earliest first, at most three of them and all of them when there are
\* fewer; never today, never a day without a free slot, and nothing when
\* no day of the horizon has one.
C26_EarliestFreeDates ==
  \A u \in Users, doctor_id \in Range(DoctorIds) :
    LET appts == bots[u].appointments
        free == FreeDays(appts, doctor_id)
        dates == _get_available_dates(appts, doctor_id)
        Nth(k) == CHOOSE i \in free : Cardinality({j \in free : j <= i}) = k
    IN /\ Len(dates) = Min(Cardinality(free), MaxDates)
       /\ \A k \in DOMAIN dates : dates[k] = DateStr[Nth(k)]
       /\ current_date \notin Range(dates)
       /\ free = {} => dates = <<>>

\* a session is offered dates that pass over a booked-out day
C26_BookedDaySkipped ==
  \E u \in Users :
    LET bs == bots[u].booking_state
    IN /\ bs.step = "select_date"
       /\ last.user = u /\ last.step = "select_doctor"
       /\ bs.available_dates = _get_available_dates(bots[u].appointments, bs.doctor_id)
       /\ Len(bs.available_dates) = MaxDates
       /\ \E i \in 1..days_to_check :
            /\ i \notin FreeDays(bots[u].appointments, bs.doctor_id)
            /\ DateStr[i] \notin Range(bs.available_dates)
            /\ \E d \in Range(bs.available_dates) : DayRank(d) > DayRank(DateStr[i])

\* C27: the date held was offered.  After every step, a session whose step
\* is past select_date holds a date that is one of the available dates it
\* holds for the selected doctor; and a well-formed date that is not among
\* them, typed at select_date, is refused with the dates on offer and
\* changes nothing of the booking state.
C27_DateWasOffered ==
  [][\A u \in Users :
       LET bs == bots'[u].booking_state
           m == last'.message
           PastSelectDate ==
             {"select_time_preference", "select_time", "collect_name",
              "collect_phone", "collect_age", "collect_gender", "confirm"}
       IN /\ bs.step \in PastSelectDate => bs.date \in Range(bs.available_dates)
          /\ (/\ Sends(u)
              /\ last'.step = "select_date"
              /\ ~IsCommand(m) /\ ~is_greeting(m)
              /\ HyphenCount(m) = 2
              /\ m[1] \notin Range(get_or_create_user_bot(u).booking_state.available_dates))
             => /\ last'.reply = "date_unavailable_retry"
                /\ bs = get_or_create_user_bot(u).booking_state]_vars

\* a well-formed date that was not offered has been typed at select_date
C27_UnlistedDateTyped ==
  \E u \in Users :
    /\ last.user = u /\ last.step = "select_date"
    /\ HyphenCount(last.message) = 2
    /\ last.message[1] \notin Range(bots[u].booking_state.available_dates)
    /\ last.reply = "date_unavailable_retry"
    /\ bots[u].booking_state.step = "select_date"

\* C28: the time held was offered.  After every step, a session whose step
\* is past select_time holds a time that is one of the available slots it
\* holds, which are catalog slots of the preference it holds; and an input
\* at select_time that names none of the held slots, a catalog slot that was
\* not offered included, is answered with the slots on offer and changes
\* nothing of the booking state.
C28_TimeWasOffered ==
  [][\A u \in Users :
       LET bs == bots'[u].booking_state
           m == last'.message
           held == get_or_create_user_bot(u).booking_state
           PastSelectTime ==
             {"collect_name", "collect_phone", "collect_age", "collect_gender",
              "confirm"}
       IN /\ bs.step \in PastSelectTime
               => /\ bs.time \in Range(bs.available_slots)
                  /\ Range(bs.available_slots) \subseteq Range(all_slots(bs.time_preference))
          /\ (/\ Sends(u)
              /\ last'.step = "select_time"
              /\ ~IsCommand(m) /\ ~is_greeting(m)
              /\ \A slot \in Range(held.available_slots) : ~Has(m, slot))
             => /\ last'.reply = "time_retry"
                /\ bs = held]_vars

\* a catalog slot that was not offered has been typed at select_time
C28_UnofferedSlotTyped ==
  \E u \in Users :
    /\ last.user = u /\ last.step = "select_time"
    /\ \E slot \in Range(morning_slots \o evening_slots) :
         /\ Has(last.message, slot)
         /\ slot \notin Range(bots[u].booking_state.available_slots)
    /\ last.reply = "time_retry"
    /\ bots[u].booking_state.step = "select_time"

\* C29: a single preference.  When exactly one of morning and evening has a
\* free slot on the date chosen at select_date, the reply asks for a yes and
\* the one preference is all that the session holds as option; at that
\* question 'yes' advances to select_time with that preference and its free
\* slots, and every reply that names the preference without slots leaves
\* the step at select_time_preference.
C29_SinglePreference ==
  [][\A u \in Users :
       LET m == last'.message
           held == get_or_create_user_bot(u).booking_state
           bs == bots'[u].booking_state
           appts == bots'[u].appointments
           FreePreferences(doctor_id, date) ==
             {pr \in {"morning", "evening"} :
                \E slot \in Range(all_slots(pr)) : ~Taken(appts, doctor_id, date, slot)}
       IN /\ (/\ Sends(u)
               /\ last'.step = "select_date"
               /\ bs.step = "select_time_preference"
               /\ Cardinality(FreePreferences(bs.doctor_id, bs.date)) = 1)
              => /\ last'.reply = "single_preference_prompt"
                 /\ Range(bs.time_preference_options)
                      = FreePreferences(bs.doctor_id, bs.date)
          /\ (/\ Sends(u)
               /\ last'.step = "select_time_preference"
               /\ Len(held.time_preference_options) = 1
               /\ ~IsCommand(m) /\ ~is_greeting(m))
              => LET only == held.time_preference_options[1]
                     other == IF only = "morning" THEN "evening" ELSE "morning"
                 IN /\ m = <<"yes">>
                         => /\ bs.step = "select_time"
                            /\ bs.time_preference = only
                            /\ bs.available_slots
                                 = _get_available_slots(appts, held.doctor_id, held.date, only)
                    /\ Contains(m, other)
                         => bs.step = "select_time_preference"]_vars

\* C30: the patient id of a persisted appointment.  A confirmation that
\* stores an appointment stores it under a permanent patient id: the id of
\* the existing patient whose name and phone both match, if there is one
\* with a permanent id, otherwise the patient_ id minted at that moment;
\* never the temp_ id the session used while the booking was under way.
C30_PermanentPatientId ==
  [][\A u \in Users :
       (/\ Sends(u)
        /\ last'.step = "confirm"
        /\ last'.reply = "appointment_booked")
       => LET bot == get_or_create_user_bot(u)
              bs == bot.booking_state
              TempIds == {TempId(c) : c \in 0..MaxClock}
              RowOf(rows, appointment_id) ==
                rows[CHOOSE i \in DOMAIN rows : rows[i].id = appointment_id]
              known == {j \in DOMAIN bot.patients :
                          /\ bot.patients[j].id \notin TempIds
                          /\ bot.patients[j].data.name = bs.name
                          /\ bot.patients[j].data.phone = bs.phone}
              patient_id == RowOf(appointments_sheet', ApptId(clock)).data.patient_id
          IN /\ patient_id \notin TempIds
             /\ patient_id = IF known = {} THEN PermId(clock)
                              ELSE bot.patients[FirstIndex(known)].id]_vars

\* ------------------------------------------------------ specialties offered
\* C31: the specialties offered.  A start message is answered with, as
\* options, exactly the specialties that have a doctor with a free slot in
\* the scan horizon, in lexicographic order; a specialty whose doctors are
\* all booked out in the horizon is not among them.
C31_OnlyFreeSpecialties ==
  [][\A u \in Users :
       (/\ Sends(u)
        /\ last'.message = <<"book", "appointment">>
        /\ last'.reply = "specialty_prompt")
       => LET appts == bots'[u].appointments
              free == {DoctorsData[d].specialty :
                         d \in {d \in Range(DoctorIds) :
                                  _get_available_dates(appts, d) # <<>>}}
          IN bots'[u].booking_state.specialty_options = SortStrings(free)]_vars

\* ------------------------------------------------------- shared appointments
\* C32: an appointment persisted by one session is seen by every other.  The
\* slots a session is offered at select_time, and the slot an appointment is
\* confirmed in, are never the slot of a non-cancelled appointment that
\* another session has persisted on the worksheet for that doctor and date.
C32_PersistedSeenByAll ==
  [][\A u \in Users :
       LET bs == bots'[u].booking_state
           held == get_or_create_user_bot(u).booking_state
       IN /\ (/\ Sends(u)
              /\ last'.step = "select_time_preference"
              /\ bs.step = "select_time")
             => \A slot \in Range(bs.available_slots) :
                  ~Taken(appointments_sheet, bs.doctor_id, bs.date, slot)
          /\ (/\ Sends(u)
              /\ last'.step = "confirm"
              /\ last'.reply = "appointment_booked")
             => ~Taken(appointments_sheet, held.doctor_id, held.date, held.time)]_vars

\* ------------------------------------------------------------ pending steps
\* C33: BookingState and the flag agree.  In every state of every session,
\* BookingState holds a pending step (of the booking flow or of the
\* reschedule flow) exactly when is_booking_active is true, so that the next
\* message is routed to the step the session was prompted for.
C33_StepIffActive ==
  \A u \in Users :
    bots[u].booking_state.step # None <=> bots[u].is_booking_active

\* ------------------------------------------------------ doctor and specialty
\* C34: the doctor held belongs to the specialty held.  In every state of
\* a booking flow, a doctor_id held in BookingState is one of the doctor
\* options held, and the specialty of that doctor is selected_specialty; and
\* the doctor of every persisted appointment has the specialty the
\* appointment records.  (A reschedule flow holds the doctor of the
\* appointment it moves and selects no specialty.)
C34_DoctorOfSpecialty ==
  /\ \A u \in Users :
       LET bs == bots[u].booking_state
       IN bs.doctor_id # None /\ bs.step \in Range(FlowOrder)
            => /\ bs.doctor_id \in Range(bs.doctor_options)
               /\ DoctorsData[bs.doctor_id].specialty = bs.selected_specialty
  /\ \A i \in DOMAIN appointments_sheet :
       DoctorsData[appointments_sheet[i].data.doctor_id].specialty
         = appointments_sheet[i].data.specialty

\* ------------------------------------------------------- the WhatsApp webhook
\* C35: the webhook delivers every valid input.  A message sent through the
\* webhook that is a valid input of the step the user's booking is at moves
\* the booking to the next step, also when its text is the text of the
\* user's message before it.
C35_ValidInputDelivered ==
  [][\A u \in Users :
       LET bs == bots[u].booking_state
           m == last'.message
       IN (/\ Sends(u)
           /\ bots[u].is_booking_active
           /\ bs.step \in Range(FlowOrder)
           /\ ValidInput(bs, m)
           /\ ~IsCommand(m))
          => /\ last'.reply # "dropped"
             /\ bots'[u].booking_state.step = Successor(bs.step, last'.phone # <<>>)]_vars

\* ---------------------------------------------------------- patient records
\* C36: the patient record of a persisted appointment is not taken over.  No
\* step changes the name or the phone of a patient record on the worksheet
\* that a persisted appointment refers to: the partial saves of a later
\* booking for another patient go to another patient id.
C36_PatientRecordKept ==
  [][\A i \in DOMAIN appointments_sheet :
       LET patient_id == appointments_sheet[i].data.patient_id
       IN patient_id \in Keys(patients_sheet)
            => /\ patient_id \in Keys(patients_sheet')
               /\ Get(patients_sheet', patient_id).name
                    = Get(patients_sheet, patient_id).name
               /\ Get(patients_sheet', patient_id).phone
                    = Get(patients_sheet, patient_id).phone]_vars

\* ------------------------------------------------------------ catalog times
\* C37: appointment times are catalog labels.  In every state, the time of
\* every non-cancelled appointment, on the worksheet and in the cache of
\* every session, is a label of the slot catalog of the availability
\* calculator.
C37_TimesAreCatalogLabels ==
  LET labels == Range(morning_slots \o evening_slots)
      InCatalog(rows) ==
        \A i \in DOMAIN rows :
          rows[i].data.status # "cancelled" => rows[i].data.time \in labels
  IN /\ InCatalog(appointments_sheet)
     /\ \A u \in Users : InCatalog(bots[u].appointments)

\* ------------------------------------------------------------ failed writes
\* C38: a failed booking leaves the cache as it was.  When the reason arrives
\* at confirm and book_appointment returns false, the write to the worksheet
\* having raised, the appointments the session holds are the same as before
\* the call, and the slot of the failed booking is still free for the session.
C38_FailedBookingUndone ==
  [][\A u \in Users :
       LET bot == get_or_create_user_bot(u)
           bs == bot.booking_state
       IN (/\ Sends(u)
           /\ last'.step = "confirm"
           /\ last'.reply = "system_error")
          => /\ bots'[u].appointments = bot.appointments
             /\ bs.time \in Range(_get_available_slots(bots'[u].appointments,
                                                      bs.doctor_id, bs.date, None))]_vars

\* --------------------------------------------- yes in the reschedule flow
\* C39: 'yes' to the single preference when rescheduling.  In a reschedule
\* flow that asks for the time preference with only one of morning and
\* evening free on the chosen date, the reply 'yes' moves the flow to
\* reschedule_time and offers the free slots of that one preference.
C39_YesTakesSinglePreference ==
  [][\A u \in Users :
       LET bot == get_or_create_user_bot(u)
           bs == bot.booking_state
       IN (/\ Sends(u)
           /\ bot.is_booking_active
           /\ bs.step = "reschedule_time_preference"
           /\ Len(bs.time_preference_options) = 1
           /\ last'.message = <<"yes">>)
          => /\ bots'[u].booking_state.step = "reschedule_time"
             /\ bots'[u].booking_state.available_slots
                  = _get_available_slots(bot.appointments, bs.doctor_id, bs.date,
                                         bs.time_preference_options[1])]_vars

\* ------------------------------------------------------- pathology bookings
\* the most tests booked in a behaviour
MaxTests == 1

\* one message of the pathology bot's user through get_response: an override
\* keyword, a start keyword, 'yes', or the test type this user asks for (the
\* scenario names it); the worksheet write of a booking is done, replaced by
\* a save(), or fails
NextPathology ==
  \E message \in {"book test", "select test", "select slot", "name", "phone",
                  "confirm", "hi", "yes", scenario},
     write \in {"appended", "saved", "failed"} :
    LET p == get_response(pathology, "u1", message, clock, write)
    IN /\ Len(p.tests) <= MaxTests
       /\ Len(p.tests) = Len(pathology.tests) => write = "appended"
       /\ pathology' = p
       /\ last' = [user |-> "u1", message |-> <<message>>, phone |-> <<>>,
                   sheet_ok |-> (write = "appended"),
                   step |-> IF "u1" \in Keys(pathology.states)
                            THEN Get(pathology.states, "u1").current_state
                            ELSE "START",
                   reply |-> p.reply]
       /\ UNCHANGED <<bots, appointments_sheet, patients_sheet, clock, scenario,
                      catalog>>

InitPathology == InitData /\ scenario \in {"CBC", "RBC"} /\ catalog = SeededCatalog

SpecPathology == InitPathology /\ [][NextPathology]_vars

\* C40: bookings of the pathology bot.  For every sequence of messages,
\* override keywords included: a test is added to the bookings only by a
\* message 'yes' that finds the user in state CONFIRM; every test booked is
\* a CBC or an RBC; and a message that the confirmation step handles, 'yes'
\* or any other answer, leaves the user in state MAIN_MENU.
C40_BookedOnlyByYes ==
  [][LET overrides == {"book test", "select test", "select slot", "name", "phone"}
         starts == {"hi", "hello", "start", "menu", "main menu", "home", "okay"}
         message == last'.message[1]
         confirmed == \/ message = "confirm"
                      \/ /\ last'.step = "CONFIRM"
                         /\ message \notin overrides \cup starts
     IN /\ pathology'.tests # pathology.tests
             => /\ message = "yes" /\ last'.step = "CONFIRM"
                /\ Len(pathology'.tests) = Len(pathology.tests) + 1
        /\ \A i \in DOMAIN pathology'.tests :
             pathology'.tests[i].data.test_name \in {"CBC", "RBC"}
        /\ confirmed => Get(pathology'.states, "u1").current_state = "MAIN_MENU"]_vars

\* a test was booked by 'yes' after the override keyword 'phone' led back to
\* the confirmation with the context of an earlier booking flow
C40_BookedThroughOverride ==
  /\ last.message = <<"yes">>
  /\ last.step = "CONFIRM"
  /\ Len(pathology.tests) = 1
  /\ pathology.tests[1].data.phone = "phone"
  /\ Get(pathology.states, "u1").current_state = "MAIN_MENU"

====
